---- MODULE Spec2Model ----
(***************************************************************************)
(* Model of the caption translator (src/src/index.js and the service       *)
(* modules beside it): the work-set build, the batch grouper, the grouped  *)
(* execution loop with per-batch retry, the checkpoint store and the       *)
(* single-text translation service.                                        *)
(*                                                                         *)
(* Texts are strings, so text.length is Len(text).  A row is the object    *)
(* sheet_to_json makes of a sheet row: a function from the headers the row  *)
(* has a key for to the cell values; a cell may hold the empty string.      *)
(***************************************************************************)
EXTENDS Integers, Sequences, FiniteSets, TLC

VARIABLES
    \* ---- groupTextsByLength, called on its own ----
    gTexts,         \* the argument: a list of distinct texts
    gMaxLen,        \* config.MAX_TEXT_LENGTH of the call
    gBatchSize,     \* config.BATCH_SIZE of the call
    gGroups,        \* the value returned
    gPc,            \* "call" before the call, "returned" after it
    \* ---- processExcelFile: inputs ----
    config,                 \* the tunables calculateOptimalConfig returned
    jsonData,               \* the rows read from the input file
    existingTranslations,   \* what loadExistingTranslations returned
    dryRun,                 \* the --dry-run flag
    \* ---- processExcelFile: locals ----
    pc,                     \* position in processExcelFile
    germanColumns,          \* the columns selected for translation
    translationCache,       \* Map text -> translation, in insertion order
    completedTranslations,  \* cells found already translated by the build
    uniqueTexts,            \* the pending texts
    textGroups,             \* the batches groupTextsByLength returned
    batchGroups,            \* the batches sliced into groups
    groupIndex,             \* loop counter over batchGroups (0-based)
    batchState,             \* the translateBatch calls of the current group
    subBatchPromises,       \* the sub-batch requests behind their sleep or awaited
    servedList,             \* the timer list being served and the last setting it reaches
    progress,               \* batches counted as done
    processedRows,          \* rows covered by the last intermediate save
    \* ---- processExcelFile: files and exit ----
    checkpointFile,         \* <<>> when absent, else <<record>>
    translatedFile,         \* the intermediate artifact: <<>> or <<rows>>
    finalFile,              \* the final artifact: <<>> or <<rows>>
    exitCode,               \* -1 while running, then 0 or 1
    \* ---- processExcelFile: history ----
    sentIn,                 \* text -> numbers of the batches that sent it
    dispatched,             \* numbers of the batches whose call has started
    returned,               \* numbers of the batches whose call has returned
    failedBatches,          \* numbers of the batches whose attempts all failed
    blankResponse,          \* a successful response carried an empty translation
    writeFailed,            \* an output write (intermediate or final) threw
    unlinked,               \* the checkpoint file has been deleted by the run
    savedAt,                \* progress at the last saveCheckpoint call of the loop
    silent,                 \* numbers of the batches with a request never answered
    \* ---- saveCheckpoint, step by step ----
    fs,                     \* path -> <<>> when absent, else <<file text>>
    savePc,                 \* position in saveCheckpoint
    saveData,               \* the data argument of the call
    savePrev,               \* what the target path held when the call began
    saveRenamed,            \* the call has renamed the temporary file
    saveCount,              \* calls begun so far
    saveOutcome,            \* how the last call ended: "none", "ok" or "failed"
    lastSaved,              \* what the last call that ended "ok" put at the target
    loadResult,             \* what loadCheckpoint returned since the last save
    \* ---- translateBatch and translateSingle of the service module ----
    svcTexts,               \* the texts argument of translateBatch
    svcPc,                  \* position in translateBatch
    svcI,                   \* loop index i (0-based)
    svcRetryCount,          \* retryCount of the translateSingle call in progress
    svcResults,             \* the results Map
    svcFailedTexts,         \* failedTexts
    svcAttempts,            \* requests made so far for the text in progress
    \* ---- the process across an interruption ----
    runNo,                  \* 1 for the first run on the input, 2 for the resumed run
    firstExisting,          \* what loadExistingTranslations returned to the first run
    startCheckpoint,        \* the checkpoint file found when the current run began
    \* ---- the RateLimiter instance and the translateSingle calls using it ----
    clock,                  \* Date.now()
    requests,               \* this.requests: the times of the slots kept
    callers,                \* caller -> [state, start, wake, sent] of its translateSingle call
    grants,                 \* the times of all slots granted so far
    \* ---- a ProgressMonitor instance ----
    monNow,                 \* Date.now(), in time units
    progressHistory,        \* this.progressHistory: samples [timestamp, count]
    lastStallCheck,         \* this.lastStallCheck
    currentProgress,        \* this.currentProgress
    monStatus,              \* the last updateProgress call: [isStalled, evaluated]
    \* ---- the column filter, applied to one header ----
    colHeaders,             \* the header names of the first row, in order
    colTranslate,           \* the allow-list (COLUMNS_TO_TRANSLATE)
    colIgnore,              \* the deny-list (COLUMNS_TO_IGNORE)
    colSelected,            \* <<>> before the filter ran, then <<germanColumns>>
    \* ---- one translateBatch call of index.js, request by request ----
    tbTexts,                \* uniqueTexts of the call
    tbParallel,             \* config.PARALLEL_BATCHES
    tbPc,                   \* position in translateBatch
    tbRetry,                \* the loop variable retry
    tbRequests,             \* every sub-batch request made: [attempt, sub, state]
    tbServed,               \* the timer list being served: a sub-batch index, else 0
    tbResult,               \* the map the call returned
    \* ---- calculateOptimalConfig on a host, and the slicing loop using it ----
    hostCpu,                \* os.cpus().length
    hostLowMemory,          \* freeMemory / totalMemory < 0.2
    hostModule,             \* the config comes from the config module (part_005)
    hostConfig,             \* <<>>, then <<the config returned>>
    hostBatches,            \* textGroups.length
    hostI,                  \* the loop variable i
    hostGroups              \* batchGroups, as the indices of the batches of each group

groupVars == <<gTexts, gMaxLen, gBatchSize, gGroups, gPc>>

runInputs == <<config, jsonData, existingTranslations, dryRun>>
runLocals == <<pc, germanColumns, translationCache, completedTranslations,
               uniqueTexts, textGroups, batchGroups, groupIndex, batchState,
               subBatchPromises, servedList, progress, processedRows>>
runFiles == <<checkpointFile, translatedFile, finalFile, exitCode>>
runHistory == <<sentIn, dispatched, returned, failedBatches,
                blankResponse, writeFailed, unlinked, savedAt, silent>>
runVars == <<runInputs, runLocals, runFiles, runHistory>>

ckptVars == <<fs, savePc, saveData, savePrev, saveRenamed, saveCount, saveOutcome,
              lastSaved, loadResult>>

svcVars == <<svcTexts, svcPc, svcI, svcRetryCount, svcResults, svcFailedTexts,
             svcAttempts>>

sessVars == <<runNo, firstExisting, startCheckpoint>>

limVars == <<clock, requests, callers, grants>>

monVars == <<monNow, progressHistory, lastStallCheck, currentProgress, monStatus>>

colVars == <<colHeaders, colTranslate, colIgnore, colSelected>>

tbVars == <<tbTexts, tbParallel, tbPc, tbRetry, tbRequests, tbServed, tbResult>>

hostVars == <<hostCpu, hostLowMemory, hostModule, hostConfig, hostBatches, hostI,
              hostGroups>>

vars == <<groupVars, runVars, ckptVars, svcVars, sessVars, limVars, monVars, colVars,
          tbVars, hostVars>>

\* What a specification of one part leaves alone.
notRun == <<groupVars, ckptVars, svcVars, limVars, monVars, colVars, tbVars, hostVars>>
notGroup == <<runVars, sessVars, ckptVars, svcVars, limVars, monVars, colVars, tbVars, hostVars>>
notCkpt == <<groupVars, runVars, sessVars, svcVars, limVars, monVars, colVars, tbVars, hostVars>>
notSvc == <<groupVars, runVars, sessVars, ckptVars, limVars, monVars, colVars, tbVars, hostVars>>
notLim == <<groupVars, runVars, sessVars, ckptVars, svcVars, monVars, colVars, tbVars, hostVars>>
notMon == <<groupVars, runVars, sessVars, ckptVars, svcVars, limVars, colVars, tbVars, hostVars>>
notCol == <<groupVars, runVars, sessVars, ckptVars, svcVars, limVars, monVars, tbVars, hostVars>>
notTb == <<groupVars, runVars, sessVars, ckptVars, svcVars, limVars, monVars, colVars, hostVars>>
notHost == <<groupVars, runVars, sessVars, ckptVars, svcVars, limVars, monVars, colVars, tbVars>>

(***************************************************************************)
(* Input domains and bounds                                                *)
(***************************************************************************)
\* The source texts of the model; "a" and "b" have the same length.
Texts == {"a", "b", "cc", "ddd"}

\* Longest list handed to groupTextsByLength on its own.
MaxTexts == 3
\* Largest MAX_TEXT_LENGTH and BATCH_SIZE tried on groupTextsByLength alone.
MaxLenLimit == 4
MaxSizeLimit == 3

(***************************************************************************)
(* Sequence helpers                                                        *)
(***************************************************************************)
Range(s) == {s[i] : i \in DOMAIN s}

\* All lists of pairwise distinct elements of S of length <= n.
DistinctSeqs(S, n) ==
    {s \in UNION {[1..k -> S] : k \in 0..n} :
        \A i, j \in DOMAIN s : i # j => s[i] # s[j]}

RECURSIVE Flatten(_)
Flatten(ss) == IF ss = <<>> THEN <<>> ELSE Head(ss) \o Flatten(Tail(ss))

(***************************************************************************)
(* groupTextsByLength (index.js 179-204)                                   *)
(***************************************************************************)
\* Array.prototype.sort with (a, b) => a.length - b.length is stable:
\* insertion after every element that is not longer.
RECURSIVE InsertByLength(_, _)
InsertByLength(sorted, t) ==
    IF sorted = <<>> THEN <<t>>
    ELSE IF Len(Head(sorted)) <= Len(t)
         THEN <<Head(sorted)>> \o InsertByLength(Tail(sorted), t)
         ELSE <<t>> \o sorted

RECURSIVE SortByLength(_)
SortByLength(texts) ==
    IF texts = <<>> THEN <<>>
    ELSE InsertByLength(SortByLength(SubSeq(texts, 1, Len(texts) - 1)),
                        texts[Len(texts)])

\* The loop with the final flush left out: the last group is never pushed.
RECURSIVE GroupLoopNoFlush(_, _, _, _, _, _)
GroupLoopNoFlush(rest, groups, currentGroup, currentLength, maxLen, batchSize) ==
    IF rest = <<>> THEN groups
    ELSE LET text  == Head(rest)
             close == /\ \/ currentLength + Len(text) > maxLen
                         \/ Len(currentGroup) >= batchSize
                      /\ Len(currentGroup) > 0
             g1 == IF close THEN Append(groups, currentGroup) ELSE groups
             c1 == IF close THEN <<>> ELSE currentGroup
             l1 == IF close THEN 0 ELSE currentLength
         IN  GroupLoopNoFlush(Tail(rest), g1, Append(c1, text), l1 + Len(text),
                              maxLen, batchSize)

\* for (const text of sortedTexts) { ... } followed by the final push.
RECURSIVE GroupLoop(_, _, _, _, _, _)
GroupLoop(rest, groups, currentGroup, currentLength, maxLen, batchSize) ==
    IF rest = <<>>
    THEN IF Len(currentGroup) > 0 THEN Append(groups, currentGroup) ELSE groups
    ELSE LET text  == Head(rest)
             close == /\ \/ currentLength + Len(text) > maxLen
                         \/ Len(currentGroup) >= batchSize
                      /\ Len(currentGroup) > 0
             g1 == IF close THEN Append(groups, currentGroup) ELSE groups
             c1 == IF close THEN <<>> ELSE currentGroup
             l1 == IF close THEN 0 ELSE currentLength
         IN  GroupLoop(Tail(rest), g1, Append(c1, text), l1 + Len(text),
                       maxLen, batchSize)

groupTextsByLength(texts, maxLen, batchSize) ==
    GroupLoop(SortByLength(texts), <<>>, <<>>, 0, maxLen, batchSize)

(***************************************************************************)
(* processExcelFile: inputs                                                *)
(***************************************************************************)
\* The columns of the input sheet; both satisfy the designation rule, the
\* first by its suffix, the second by the allow-list.
Columns == <<"Title_DE", "IPTC_DE_Headline">>
\* The values a cell of each column takes, when the row has the key; the
\* empty string is tried in the first column.
ColumnValues == <<{"", "a", "b", "cc"}, {"cc"}>>
\* The texts a sheet can hold.
RunTexts == UNION {ColumnValues[c] : c \in DOMAIN ColumnValues} \ {""}

\* Most rows of an input sheet.
MaxRows == 2
\* Largest PARALLEL_BATCHES and BATCH_SIZE a host is given.
MaxParallel == 2
MaxBatchSize == 2
\* The scaled CHECKPOINT_INTERVAL and SAVE_INTERVAL of the runs.
CheckpointEvery == 2
SaveEvery == 1

MAX_RETRIES == 3
MAX_TEXT_LENGTH == 5000

COLUMNS_TO_TRANSLATE == {"IPTC_DE_Headline", "IPTC_DE_Beschreibung",
                         "IPTC_DE_Bundesland", "IPTC_DE_Land",
                         "IPTC_DE_Anweisung", "IPTC_DE_User_Keywords",
                         "AI_keywords_DE"}
COLUMNS_TO_IGNORE == {"IPTC_DE_Credit", "IPTC_DE_Aufnahmedatum"}

\* The rows over some of the columns given, each cell from the values of
\* its column.
RowsOver(columns, values) ==
    UNION {{r \in [{columns[c] : c \in S} -> UNION Range(values)] :
               \A c \in S : r[columns[c]] \in values[c]} : S \in SUBSET DOMAIN columns}

\* The row with a key for every cell of the list that is not empty, as the
\* reader makes it of a sheet row without empty strings.
RowOf(cells) ==
    [h \in {Columns[c] : c \in {d \in DOMAIN cells : cells[d] # ""}} |->
        cells[CHOOSE c \in DOMAIN cells : Columns[c] = h]]

RowChoices == RowsOver(Columns, ColumnValues)
Datasets == UNION {[1..n -> RowChoices] : n \in 0..MaxRows}

Configs == [PARALLEL_BATCHES : 1..MaxParallel,
            BATCH_SIZE : 1..MaxBatchSize,
            MAX_TEXT_LENGTH : {MAX_TEXT_LENGTH},
            MAX_RETRIES : {MAX_RETRIES},
            CHECKPOINT_INTERVAL : {CheckpointEvery},
            SAVE_INTERVAL : {SaveEvery}]

\* An earlier translation of a text, as a prior output artifact holds it.
Earlier(t) == "old:" \o t
\* The maps loadExistingTranslations returns: no artifact, or one with "a".
ExistingChoices == {[t \in RunTexts |-> ""],
                    [t \in RunTexts |-> IF t = "a" THEN Earlier(t) ELSE ""]}

\* The backend's translation of a text.
Translate(t) == "en:" \o t
\* The message of the error a failed request throws.
ErrorMessage == "HTTP error! status: 500"
\* `[TRANSLATION ERROR: ${error.message}]`
ErrorSentinel == "[TRANSLATION ERROR: " \o ErrorMessage \o "]"

(***************************************************************************)
(* Map (insertion-ordered): a list of entries [k, v] with distinct keys    *)
(***************************************************************************)
MapKeys(m) == [i \in DOMAIN m |-> m[i].k]
MapHas(m, key) == \E i \in DOMAIN m : m[i].k = key
\* Map.prototype.get, for a key the map has.
MapGet(m, key) == m[CHOOSE i \in DOMAIN m : m[i].k = key].v

\* A set() that never looks for the key: every call appends an entry.
MapSetAppend(m, key, value) == Append(m, [k |-> key, v |-> value])

\* Map.prototype.set: the value of an existing key is replaced in place, a
\* new key is appended.
MapSet(m, key, value) ==
    IF MapHas(m, key)
    THEN [i \in DOMAIN m |-> IF m[i].k = key THEN [k |-> key, v |-> value] ELSE m[i]]
    ELSE Append(m, [k |-> key, v |-> value])

RECURSIVE MapSetAll(_, _)
MapSetAll(m, entries) ==
    IF entries = <<>> THEN m
    ELSE MapSetAll(MapSet(m, Head(entries).k, Head(entries).v), Tail(entries))

(***************************************************************************)
(* processExcelFile: the work-set build (index.js 534-572)                 *)
(***************************************************************************)
EndsWith(s, suffix) ==
    /\ Len(s) >= Len(suffix)
    /\ SubSeq(s, Len(s) - Len(suffix) + 1, Len(s)) = suffix

\* The filter with the allow-list left out.
SelectsColumnSuffixOnly(header, translate, ignore) ==
    EndsWith(header, "_DE") /\ header \notin ignore

\* Lines 536-539: the predicate of headers.filter, for the lists given.
SelectsColumn(header, translate, ignore) ==
    \/ header \in translate
    \/ EndsWith(header, "_DE") /\ header \notin ignore

IsGermanColumn(header) ==
    SelectsColumn(header, COLUMNS_TO_TRANSLATE, COLUMNS_TO_IGNORE)

\* row[header]: the value of the key, undefined (read here as "", falsy
\* like it) when the row has no such key.
Cell(row, header) == IF header \in DOMAIN row THEN row[header] ELSE ""

\* Object.keys(jsonData[0]): the keys of the first row, in sheet order.
Headers(data) == SelectSeq(Columns, LAMBDA h : h \in DOMAIN data[1])
GermanColumnsOf(data) == SelectSeq(Headers(data), IsGermanColumn)

\* The cells the build visits: row by row, the selected columns in order.
CellsOf(data, cols) ==
    Flatten([r \in 1..Len(data) |-> [i \in 1..Len(cols) |-> Cell(data[r], cols[i])]])

\* What every plain object inherits from Object.prototype: a read of one of
\* these names on an object without such a key of its own gives the
\* inherited function (for __proto__, the prototype object), a truthy value.
ObjectPrototype ==
    [name \in {"constructor", "hasOwnProperty", "isPrototypeOf",
               "propertyIsEnumerable", "toLocaleString", "toString", "valueOf",
               "__defineGetter__", "__defineSetter__", "__lookupGetter__",
               "__lookupSetter__", "__proto__"} |->
        IF name = "constructor" THEN "[Function Object]"
        ELSE IF name = "__proto__" THEN "[Object: null prototype] {}"
        ELSE "[Function " \o name \o "]"]

\* existingTranslations[germanText] on the plain object the loader returns
\* (lines 466, 490, 494): the key's own value (the loader stores no empty
\* one), else what the prototype chain gives, else undefined, read as "".
PropertyOf(existing, germanText) ==
    IF germanText \in DOMAIN existing /\ existing[germanText] # ""
    THEN existing[germanText]
    ELSE IF germanText \in DOMAIN ObjectPrototype THEN ObjectPrototype[germanText]
         ELSE ""

RECURSIVE BuildCache(_, _, _)
BuildCache(cells, existing, cache) ==
    IF cells = <<>> THEN cache
    ELSE LET germanText == Head(cells)
         IN  IF germanText = "" THEN BuildCache(Tail(cells), existing, cache)
             ELSE IF PropertyOf(existing, germanText) # ""
                  THEN BuildCache(Tail(cells), existing,
                                  MapSet(cache, germanText,
                                         PropertyOf(existing, germanText)))
                  ELSE BuildCache(Tail(cells), existing, MapSet(cache, germanText, ""))

\* completedTranslations++ runs once for every cell with a known translation.
CountCompleted(cells, existing) ==
    Cardinality({i \in DOMAIN cells :
                    cells[i] # "" /\ PropertyOf(existing, cells[i]) # ""})

\* Every key, translated or not.
AllKeys(cache) == MapKeys(cache)

\* Array.from(cache.keys()).filter(text => !cache.get(text))
PendingTexts(cache) ==
    MapKeys(SelectSeq(cache, LAMBDA e : e.v = ""))

(***************************************************************************)
(* processExcelFile: slicing the batches into groups (index.js 630-641)    *)
(***************************************************************************)
Min(a, b) == IF a <= b THEN a ELSE b

RECURSIVE SliceFrom(_, _, _)
SliceFrom(groups, i, size) ==
    IF i > Len(groups) THEN <<>>
    ELSE <<SubSeq(groups, i, Min(i + size - 1, Len(groups)))>>
         \o SliceFrom(groups, i + size, size)

\* The inner loop running one step too far: j <= PARALLEL_BATCHES.
BatchGroupsOffByOne(groups, parallel) == SliceFrom(groups, 1, parallel + 1)

BatchGroupsOf(groups, parallel) == SliceFrom(groups, 1, parallel)

(***************************************************************************)
(* translateBatch (index.js 355-418)                                       *)
(***************************************************************************)
RECURSIVE Dedupe(_, _)
Dedupe(texts, seen) ==
    IF texts = <<>> THEN <<>>
    ELSE IF Head(texts) \in seen THEN Dedupe(Tail(texts), seen)
         ELSE <<Head(texts)>> \o Dedupe(Tail(texts), seen \cup {Head(texts)})

\* [...new Set(texts.filter(text => text))]
UniqueTextsOf(texts) == Dedupe(SelectSeq(texts, LAMBDA t : t # ""), {})

CeilDiv(a, b) == (a + b - 1) \div b
Max(a, b) == IF a >= b THEN a ELSE b

\* The request payloads of one attempt: uniqueTexts cut into slices.
SubBatchesOf(unique, parallel) ==
    SliceFrom(unique, 1, Max(1, CeilDiv(Len(unique), parallel)))

\* The map a successful attempt returns; the texts in blank come back empty.
SuccessResult(unique, parallel, blank) ==
    LET sent == Flatten(SubBatchesOf(unique, parallel))
    IN  MapSetAll(<<>>, [i \in DOMAIN sent |->
                            [k |-> sent[i],
                             v |-> IF sent[i] \in blank THEN "" ELSE Translate(sent[i])]])

\* A terminal failure that returns an empty map: the texts stay pending.
FailureResultEmpty(unique) == <<>>

\* The map returned when the last attempt has failed.
FailureResult(unique) ==
    MapSetAll(<<>>, [i \in DOMAIN unique |-> [k |-> unique[i], v |-> ErrorSentinel]])

\* await Promise.all(batchPromises): every call of the group has returned.
GroupSettled(bs) == \A i \in DOMAIN bs : ~bs[i].running

\* A merge that reads only batchResults[0].
MergeResultsFirstOnly(cache, bs) ==
    IF bs = <<>> THEN cache ELSE MapSetAll(cache, bs[1].result)

\* batchResults.forEach(map => for (entry of map) cache.set(...))
MergeResults(cache, bs) ==
    MapSetAll(cache, Flatten([i \in DOMAIN bs |-> bs[i].result]))

(***************************************************************************)
(* processExcelFile: files                                                 *)
(***************************************************************************)
CheckpointRecord(processed, cache, total) ==
    [processedRows |-> processed, translations |-> cache, totalRows |-> total]

\* An object without own properties as JSON writes it and JSON.parse reads
\* it back: an object, not a string.
EmptyObject == "{}"

\* typeof value === 'function', for the values Object.prototype gives.
IsFunction(value) ==
    \E name \in DOMAIN ObjectPrototype \ {"__proto__"} : value = ObjectPrototype[name]

DecimalDigits == <<"0", "1", "2", "3", "4", "5", "6", "7", "8", "9">>
DigitOf(c) == (CHOOSE d \in DOMAIN DecimalDigits : DecimalDigits[d] = c) - 1

\* a < b for two canonical numeric strings.
IndexBelow(a, b) ==
    \/ Len(a) < Len(b)
    \/ /\ Len(a) = Len(b)
       /\ \E i \in 1..Len(a) :
             /\ SubSeq(a, 1, i - 1) = SubSeq(b, 1, i - 1)
             /\ DigitOf(SubSeq(a, i, i)) < DigitOf(SubSeq(b, i, i))

\* A property key that is an array index: the canonical string of an
\* integer from 0 to 2^32 - 2.
IsArrayIndex(key) ==
    /\ Len(key) \in 1..10
    /\ \A i \in 1..Len(key) : SubSeq(key, i, i) \in Range(DecimalDigits)
    /\ Len(key) > 1 => SubSeq(key, 1, 1) # "0"
    /\ Len(key) = 10 => IndexBelow(key, "4294967295")

\* JSON.stringify of Object.fromEntries(translationCache) (lines 321, 590,
\* 693): the array-index keys come first, ascending, then the others as
\* they were set; a property whose value is a function is left out, and
\* Object.prototype, an object without own properties, is written {}.
JsonTranslations(translations) ==
    LET kept    == SelectSeq(translations, LAMBDA e : ~IsFunction(e.v))
        written == [i \in DOMAIN kept |->
                       [k |-> kept[i].k,
                        v |-> IF kept[i].v = ObjectPrototype["__proto__"]
                              THEN EmptyObject ELSE kept[i].v]]
    IN  SortSeq(SelectSeq(written, LAMBDA e : IsArrayIndex(e.k)),
                LAMBDA a, b : IndexBelow(a.k, b.k))
        \o SelectSeq(written, LAMBDA e : ~IsArrayIndex(e.k))

\* The record as the checkpoint file holds it.
FileRecord(data) == [data EXCEPT !.translations = JsonTranslations(@)]

\* String.prototype.replace(from, to) with a string pattern: the first
\* occurrence only.
ReplaceFirst(s, from, to) ==
    LET hits == {i \in 1..(Len(s) - Len(from) + 1) :
                    SubSeq(s, i, i + Len(from) - 1) = from}
    IN  IF hits = {} THEN s
        ELSE LET i == CHOOSE h \in hits : \A k \in hits : h <= k
             IN  SubSeq(s, 1, i - 1) \o to \o SubSeq(s, i + Len(from), Len(s))

\* germanCol.replace('_DE', '_EN')
EnglishColumn(germanCol) == ReplaceFirst(germanCol, "_DE", "_EN")

\* translationCache.get(text) || ''
Lookup(cache, text) == IF MapHas(cache, text) THEN MapGet(cache, text) ELSE ""

\* row[col] = value
WithCell(row, col, value) ==
    [h \in DOMAIN row \cup {col} |-> IF h = col THEN value ELSE row[h]]

\* Lines 705-712: newRow = { ...row } and, for every selected column the
\* row has a truthy value in, newRow[englishCol] = cache.get(text) || '';
\* the text is read from row, which stays as it is.
RECURSIVE PartialRow(_, _, _, _)
PartialRow(row, newRow, cols, cache) ==
    IF cols = <<>> THEN newRow
    ELSE PartialRow(row,
                    IF Cell(row, Head(cols)) # ""
                    THEN WithCell(newRow, EnglishColumn(Head(cols)),
                                  Lookup(cache, row[Head(cols)]))
                    ELSE newRow,
                    Tail(cols), cache)

\* partialData of lines 704-713.
Materialize(data, cols, cache) ==
    [r \in 1..Len(data) |-> PartialRow(data[r], data[r], cols, cache)]

\* Lines 725-730 on one row: the English cell is written into row itself,
\* and a later column reads the row as written.
RECURSIVE ApplyColumns(_, _, _)
ApplyColumns(row, cols, cache) ==
    IF cols = <<>> THEN row
    ELSE ApplyColumns(IF Cell(row, Head(cols)) # ""
                      THEN WithCell(row, EnglishColumn(Head(cols)),
                                    Lookup(cache, row[Head(cols)]))
                      ELSE row,
                      Tail(cols), cache)

\* jsonData after the loops of lines 723-730.
ApplyFinal(data, cols, cache) ==
    [r \in 1..Len(data) |-> ApplyColumns(data[r], cols, cache)]

\* col.endsWith('_DE') in loadExistingTranslations.
LoaderReads(s, suffix) == EndsWith(s, suffix)

\* loadExistingTranslations (index.js 451-496) on the rows of the _translated
\* file: row by row, key by key; an unreadable or absent file gives {}.
\* Line 478, translations[germanText] = englishText: for the key __proto__
\* the assignment runs the setter of Object.prototype, which stores nothing
\* for a string.
RECURSIVE LoadRow(_, _, _)
LoadRow(row, c, translations) ==
    IF c > Len(Columns) THEN translations
    ELSE LET col == Columns[c]
             englishCol == EnglishColumn(col)
         IN  IF /\ col \in DOMAIN row
                /\ LoaderReads(col, "_DE")
                /\ row[col] # ""
                /\ englishCol \in DOMAIN row
                /\ row[englishCol] # ""
                /\ row[col] \in DOMAIN translations
                /\ row[col] # "__proto__"
             THEN LoadRow(row, c + 1, [translations EXCEPT ![row[col]] = row[englishCol]])
             ELSE LoadRow(row, c + 1, translations)

RECURSIVE LoadRows(_, _)
LoadRows(rows, translations) ==
    IF rows = <<>> THEN translations
    ELSE LoadRows(Tail(rows), LoadRow(Head(rows), 1, translations))

loadExistingTranslations(file, texts) ==
    IF file = <<>> THEN [t \in texts |-> ""]
    ELSE LoadRows(file[1], [t \in texts |-> ""])

\* The _translated file a run finds when it starts, for the map the loader
\* makes of it: no file when the map is empty, else one row for each text.
PriorArtifact(existing) ==
    LET seeded == {t \in DOMAIN existing : existing[t] # ""}
        row(t) == [h \in {Columns[1], EnglishColumn(Columns[1])} |->
                      IF h = Columns[1] THEN t ELSE existing[t]]
        RECURSIVE rows(_)
        rows(S) == IF S = {} THEN <<>>
                   ELSE LET t == CHOOSE x \in S : TRUE
                        IN  <<row(t)>> \o rows(S \ {t})
    IN  IF seeded = {} THEN <<>> ELSE <<rows(seeded)>>

\* No timer list is being served.
NotServing == [sub |-> 0, upTo |-> 0]

(***************************************************************************)
(* processExcelFile (index.js 504-754), one action per step                *)
(***************************************************************************)
Fatal ==
    /\ pc' = "exit"
    /\ exitCode' = 1

\* The build without the throw of lines 541-543: a sheet with no selected
\* column goes on with an empty cache.
BuildNoColumnCheck ==
    /\ pc = "start"
    /\ servedList' = NotServing
    /\ IF Len(jsonData) = 0
       THEN /\ Fatal
            /\ UNCHANGED <<germanColumns, translationCache, completedTranslations,
                           uniqueTexts>>
       ELSE LET cols  == GermanColumnsOf(jsonData)
                cells == CellsOf(jsonData, cols)
                cache == BuildCache(cells, existingTranslations, <<>>)
            IN  /\ germanColumns' = cols
                /\ translationCache' = cache
                /\ completedTranslations' = CountCompleted(cells, existingTranslations)
                /\ uniqueTexts' = PendingTexts(cache)
                /\ pc' = IF dryRun THEN "done" ELSE "checkpoint0"
                /\ exitCode' = IF dryRun THEN 0 ELSE exitCode
    /\ UNCHANGED <<runInputs, textGroups, batchGroups, groupIndex, batchState, subBatchPromises,
                   progress, processedRows, checkpointFile, translatedFile,
                   finalFile, runHistory>>

\* The build without the return of lines 580-584: a dry run goes on to the
\* checkpoint and the batches.
BuildIgnoresDryRun ==
    /\ pc = "start"
    /\ servedList' = NotServing
    /\ IF Len(jsonData) = 0 \/ Len(GermanColumnsOf(jsonData)) = 0
       THEN /\ Fatal
            /\ UNCHANGED <<germanColumns, translationCache, completedTranslations,
                           uniqueTexts>>
       ELSE LET cols  == GermanColumnsOf(jsonData)
                cells == CellsOf(jsonData, cols)
                cache == BuildCache(cells, existingTranslations, <<>>)
            IN  /\ germanColumns' = cols
                /\ translationCache' = cache
                /\ completedTranslations' = CountCompleted(cells, existingTranslations)
                /\ uniqueTexts' = PendingTexts(cache)
                /\ pc' = "checkpoint0"
                /\ UNCHANGED exitCode
    /\ UNCHANGED <<runInputs, textGroups, batchGroups, groupIndex, batchState, subBatchPromises,
                   progress, processedRows, checkpointFile, translatedFile,
                   finalFile, runHistory>>

\* Lines 505-578: read the rows, select the columns, build the cache.
Build ==
    /\ pc = "start"
    /\ servedList' = NotServing
    /\ IF Len(jsonData) = 0 \/ Len(GermanColumnsOf(jsonData)) = 0
       THEN /\ Fatal
            /\ UNCHANGED <<germanColumns, translationCache, completedTranslations,
                           uniqueTexts>>
       ELSE LET cols  == GermanColumnsOf(jsonData)
                cells == CellsOf(jsonData, cols)
                cache == BuildCache(cells, existingTranslations, <<>>)
            IN  /\ germanColumns' = cols
                /\ translationCache' = cache
                /\ completedTranslations' = CountCompleted(cells, existingTranslations)
                /\ uniqueTexts' = PendingTexts(cache)
                /\ pc' = IF dryRun THEN "done" ELSE "checkpoint0"
                /\ exitCode' = IF dryRun THEN 0 ELSE exitCode
    /\ UNCHANGED <<runInputs, textGroups, batchGroups, groupIndex, batchState, subBatchPromises,
                   progress, processedRows, checkpointFile, translatedFile,
                   finalFile, runHistory>>

\* Lines 586-598: the checkpoint of the seeded cache (saveCheckpoint swallows
\* its own failure), then the early return when nothing is pending.
InitialCheckpoint ==
    /\ pc = "checkpoint0"
    /\ servedList' = NotServing
    /\ \E ok \in BOOLEAN :
          checkpointFile' =
              IF ok THEN <<FileRecord(CheckpointRecord(completedTranslations,
                                                       translationCache,
                                                       Len(translationCache)))>>
              ELSE checkpointFile
    /\ IF Len(uniqueTexts) = 0
       THEN pc' = "done" /\ exitCode' = 0
       ELSE pc' = "group" /\ UNCHANGED exitCode
    /\ UNCHANGED <<runInputs, germanColumns, translationCache, completedTranslations,
                   uniqueTexts, textGroups, batchGroups, groupIndex, batchState, subBatchPromises,
                   progress, processedRows, translatedFile, finalFile, runHistory>>

\* Lines 626-641: group the pending texts and slice the batches into groups.
GroupTexts ==
    /\ pc = "group"
    /\ servedList' = NotServing
    /\ LET groups == groupTextsByLength(uniqueTexts, config.MAX_TEXT_LENGTH,
                                        config.BATCH_SIZE)
       IN  /\ textGroups' = groups
           /\ batchGroups' = BatchGroupsOf(groups, config.PARALLEL_BATCHES)
    /\ groupIndex' = 0
    /\ progress' = 0
    /\ processedRows' = 0
    /\ pc' = "loop"
    /\ UNCHANGED <<runInputs, germanColumns, translationCache, completedTranslations,
                   uniqueTexts, batchState, subBatchPromises, runFiles, runHistory>>

\* The last run of timer settings among the timers pending: those of the
\* requests behind their sleep and of the calls in their back-off sleep.
LastSetting ==
    LET settings == {0} \cup {r.set : r \in {p \in subBatchPromises : p.state = "delayed"}}
                        \cup {batchState[i].set : i \in DOMAIN batchState}
    IN  CHOOSE n \in settings : \A m \in settings : m <= n

\* The place of the next run of timer settings: after every timer pending
\* and after the settings the list being served reaches.
NextSetting == 1 + Max(LastSetting, servedList.upTo)

\* Lines 362-395: the requests one attempt of a call creates, one for each
\* sub-batch, each behind its sleep(subIndex * 50); set tells the timers of
\* one synchronous run from those set before and after.
RequestsOfAttempt(b, k, parallel, at) ==
    LET subBatches == SubBatchesOf(b.unique, parallel)
    IN  {[number |-> b.number, attempt |-> k, sub |-> j, texts |-> subBatches[j],
          set |-> at, state |-> "delayed"] : j \in DOMAIN subBatches}

\* Lines 644-653: group.map(translateBatch) starts every call of the group.
DispatchGroup ==
    /\ pc = "loop"
    /\ UNCHANGED servedList
    /\ groupIndex < Len(batchGroups)
    /\ LET group == batchGroups[groupIndex + 1]
       IN  /\ batchState' =
                 [i \in DOMAIN group |->
                     [number  |-> groupIndex * config.PARALLEL_BATCHES + i,
                      unique  |-> UniqueTextsOf(group[i]),
                      retry   |-> 0,
                      running |-> TRUE,
                      sleeping |-> FALSE,
                      set     |-> 0,
                      result  |-> <<>>]]
           /\ subBatchPromises' = subBatchPromises \cup UNION
                 {RequestsOfAttempt([number |-> groupIndex * config.PARALLEL_BATCHES + i,
                                     unique |-> UniqueTextsOf(group[i])],
                                    0, config.PARALLEL_BATCHES,
                                    NextSetting) : i \in DOMAIN group}
           /\ dispatched' = dispatched \cup
                 {groupIndex * config.PARALLEL_BATCHES + i : i \in DOMAIN group}
    /\ pc' = "await"
    /\ UNCHANGED <<runInputs, germanColumns, translationCache, completedTranslations,
                   uniqueTexts, textGroups, batchGroups, groupIndex, progress,
                   processedRows, runFiles, sentIn, returned,
                   failedBatches, blankResponse, writeFailed, unlinked,
                   savedAt, silent>>

\* The call a request belongs to, while the group of the call is awaited.
CallOf(q) == CHOOSE i \in DOMAIN batchState : batchState[i].number = q.number

\* The request belongs to the attempt its call is awaiting (line 398).
Awaited(q) ==
    \E i \in DOMAIN batchState :
        /\ batchState[i].number = q.number
        /\ batchState[i].running
        /\ ~batchState[i].sleeping
        /\ batchState[i].retry = q.attempt

\* The timer of request r was set no later than that of request q: an
\* earlier run of settings, or the same run (group.map of line 651 calls
\* translateBatch call by call, subBatches.map of line 371 goes sub-batch by
\* sub-batch) and no later in it.
SetNoLater(r, q) ==
    \/ r.set < q.set
    \/ /\ r.set = q.set
       /\ \/ r.number < q.number
          \/ r.number = q.number /\ r.sub <= q.sub

\* Request q may fire while list q.sub is served on: the list is the one
\* being served, and the timer of q was set before the serving began (a
\* timer set by a callback of the serving is not due in it).
ServedOn(q) == servedList.sub = q.sub /\ q.set <= servedList.upTo

\* setTimeout (sleep, lines 170-172): the timers of one delay are kept in
\* one list and fire in the order they were set; the lists are served in
\* the order in which their first timers are due, and a list being served
\* goes on with its next timer when that one is due as well, however long
\* the process was held up.  So r fires before q when it was set no later
\* and has the same delay, or a shorter one unless the list of q is served
\* on.
FiresBefore(r, q) ==
    /\ r # q
    /\ SetNoLater(r, q)
    /\ \/ r.sub = q.sub
       \/ r.sub < q.sub /\ ~ServedOn(q)

\* The lists that may be served on once the back-off timer set at `at` has
\* fired.  RETRY_DELAY is a value of the configuration, so the list the
\* timer sat in is not known here: it is a list of its own, or one whose
\* pending timers were all set after it (with RETRY_DELAY 1000 the list of
\* sub-batch index 20).  The timers the wake itself sets are not reached.
ServedAfter(at) ==
    LET delayed == {r \in subBatchPromises : r.state = "delayed"}
        lists   == {d \in {r.sub : r \in delayed} :
                       \A r \in delayed : r.sub = d => r.set > at}
    IN  {NotServing} \cup {[sub |-> d, upTo |-> LastSetting] : d \in lists}

\* Lines 373-387: the sleep of a sub-batch promise is over and its fetch goes
\* out, whether or not the attempt that created it is still awaited.  The
\* list of q is served on from here; it reaches every timer pending when q
\* opens the serving, and no further when q is reached in a serving.  A
\* request is kept while it can act on the run: behind its sleep, or sent for
\* the attempt its call awaits; what the backend answers to a request of an
\* attempt given up reaches nobody.
RequestSent(q) ==
    /\ q \in subBatchPromises
    /\ q.state = "delayed"
    /\ \A r \in subBatchPromises : r.state = "delayed" => ~FiresBefore(r, q)
    /\ sentIn' = [t \in DOMAIN sentIn |->
                     IF t \in Range(q.texts) THEN sentIn[t] \cup {q.number} ELSE sentIn[t]]
    /\ subBatchPromises' =
           IF Awaited(q)
           THEN (subBatchPromises \ {q}) \cup {[q EXCEPT !.state = "inflight", !.set = 0]}
           ELSE subBatchPromises \ {q}
    /\ servedList' =
           IF \E r \in subBatchPromises \ {q} : r.state = "delayed" /\ r.sub = q.sub
           THEN [sub  |-> q.sub,
                 upTo |-> IF \E r \in subBatchPromises \ {q} :
                                /\ r.state = "delayed"
                                /\ r.sub < q.sub
                                /\ SetNoLater(r, q)
                          THEN servedList.upTo ELSE LastSetting]
           ELSE NotServing
    /\ UNCHANGED <<runInputs, pc, germanColumns, translationCache,
                   completedTranslations, uniqueTexts, textGroups, batchGroups,
                   groupIndex, batchState, progress, processedRows, runFiles,
                   dispatched, returned, failedBatches, blankResponse, writeFailed,
                   unlinked, savedAt, silent>>

\* Lines 389-408: a request of the awaited attempt is answered 2xx (the
\* first text of the batch may come back empty); with the last answer of the
\* attempt Promise.all resolves and the call returns the merged map.
RequestAnswered(q) ==
    /\ q \in subBatchPromises
    /\ servedList' = NotServing
    /\ q.state = "inflight"
    /\ Awaited(q)
    /\ \E blank \in (IF q.sub = 1 THEN BOOLEAN ELSE {FALSE}) :
          LET i     == CallOf(q)
              after == (subBatchPromises \ {q})
                          \cup {[q EXCEPT !.state = IF blank THEN "blank" ELSE "ok"]}
              mine  == {r \in after : r.number = q.number /\ r.attempt = q.attempt}
          IN  /\ blankResponse' = (blankResponse \/ blank)
              /\ IF \A r \in mine : r.state \in {"ok", "blank"}
                 THEN /\ batchState' = [batchState EXCEPT
                             ![i].running = FALSE,
                             ![i].retry = 0,
                             ![i].result =
                                 SuccessResult(batchState[i].unique,
                                               config.PARALLEL_BATCHES,
                                               IF \E r \in mine : r.state = "blank"
                                               THEN {batchState[i].unique[1]} ELSE {})]
                      /\ returned' = returned \cup {q.number}
                      /\ subBatchPromises' = after \ mine
                 ELSE /\ subBatchPromises' = after
                      /\ UNCHANGED <<batchState, returned>>
    /\ UNCHANGED <<runInputs, pc, germanColumns, translationCache,
                   completedTranslations, uniqueTexts, textGroups, batchGroups,
                   groupIndex, progress, processedRows, runFiles, sentIn, dispatched,
                   failedBatches, writeFailed, unlinked, savedAt, silent>>

\* Lines 389-391 and 409-415: a request of the awaited attempt fails and
\* Promise.all rejects at once, whatever the other requests of the attempt are
\* doing; the last attempt returns the error map, an earlier one starts the
\* back-off sleep.
RequestFails(q) ==
    /\ q \in subBatchPromises
    /\ UNCHANGED servedList
    /\ q.state = "inflight"
    /\ Awaited(q)
    /\ LET i == CallOf(q)
       IN  IF batchState[i].retry = config.MAX_RETRIES - 1
           THEN /\ batchState' = [batchState EXCEPT
                       ![i].running = FALSE,
                       ![i].retry = 0,
                       ![i].result = FailureResult(batchState[i].unique)]
                /\ returned' = returned \cup {q.number}
                /\ failedBatches' = failedBatches \cup {q.number}
           ELSE /\ batchState' = [batchState EXCEPT ![i].sleeping = TRUE,
                                                    ![i].set = NextSetting]
                /\ UNCHANGED <<returned, failedBatches>>
    /\ subBatchPromises' = {r \in subBatchPromises : r.number # q.number \/ r.state = "delayed"}
    /\ UNCHANGED <<runInputs, pc, germanColumns, translationCache,
                   completedTranslations, uniqueTexts, textGroups, batchGroups,
                   groupIndex, progress, processedRows, runFiles, sentIn, dispatched,
                   blankResponse, writeFailed, unlinked, savedAt, silent>>

\* Line 415 and the loop header: sleep(RETRY_DELAY * 2^retry) is over,
\* retry++, and the next attempt creates its requests.
RetryWakes(i) ==
    /\ i \in DOMAIN batchState
    /\ \A j \in DOMAIN batchState \ {i} :
          (batchState[j].sleeping /\ batchState[j].retry = batchState[i].retry)
          => batchState[j].set > batchState[i].set
    /\ servedList' \in ServedAfter(batchState[i].set)
    /\ batchState[i].running
    /\ batchState[i].sleeping
    /\ batchState' = [batchState EXCEPT ![i].retry = @ + 1, ![i].sleeping = FALSE,
                                        ![i].set = 0]
    /\ subBatchPromises' = subBatchPromises \cup
           RequestsOfAttempt(batchState[i], batchState[i].retry + 1,
                             config.PARALLEL_BATCHES, NextSetting)
    /\ UNCHANGED <<runInputs, pc, germanColumns, translationCache,
                   completedTranslations, uniqueTexts, textGroups, batchGroups,
                   groupIndex, progress, processedRows, runFiles, runHistory>>

\* Line 375: the backend never answers a request of the awaited attempt;
\* fetch is given no timeout and no abort signal, so its promise stays
\* pending.
RequestHangs(q) ==
    /\ q \in subBatchPromises
    /\ q.state = "inflight"
    /\ Awaited(q)
    /\ subBatchPromises' = (subBatchPromises \ {q}) \cup {[q EXCEPT !.state = "silent"]}
    /\ silent' = silent \cup {q.number}
    /\ UNCHANGED <<runInputs, pc, servedList, germanColumns, translationCache,
                   completedTranslations, uniqueTexts, textGroups, batchGroups,
                   groupIndex, batchState, progress, processedRows, runFiles, sentIn,
                   dispatched, returned, failedBatches, blankResponse, writeFailed,
                   unlinked, savedAt>>

\* Lines 655-666: Promise.all resolves, the results are merged, progress is
\* advanced.
MergeGroup ==
    /\ pc = "await"
    /\ UNCHANGED servedList
    /\ GroupSettled(batchState)
    /\ translationCache' = MergeResults(translationCache, batchState)
    /\ progress' = Min((groupIndex + 1) * config.PARALLEL_BATCHES, Len(textGroups))
    /\ batchState' = <<>>
    /\ pc' = "checkpoint"
    /\ UNCHANGED <<runInputs, germanColumns, completedTranslations, uniqueTexts,
                   textGroups, batchGroups, groupIndex, subBatchPromises, processedRows,
                   runFiles, runHistory>>

\* Lines 690-698: the periodic checkpoint.
PeriodicCheckpoint ==
    /\ pc = "checkpoint"
    /\ servedList' = IF progress % config.CHECKPOINT_INTERVAL = 0 THEN NotServing
                     ELSE servedList
    /\ IF progress % config.CHECKPOINT_INTERVAL = 0
       THEN /\ \E ok \in BOOLEAN :
                  checkpointFile' =
                      IF ok THEN <<FileRecord(CheckpointRecord(progress, translationCache,
                                                               Len(jsonData)))>>
                      ELSE checkpointFile
            /\ savedAt' = progress
       ELSE UNCHANGED <<checkpointFile, savedAt>>
    /\ pc' = "save"
    /\ UNCHANGED <<runInputs, germanColumns, translationCache, completedTranslations,
                   uniqueTexts, textGroups, batchGroups, groupIndex, batchState, subBatchPromises,
                   progress, processedRows, translatedFile, finalFile, exitCode,
                   sentIn, dispatched, returned, failedBatches, blankResponse,
                   writeFailed, unlinked, silent>>

(***************************************************************************)
(* Number arithmetic (IEEE 754 binary64) for the quotient of line 701: a    *)
(* positive value is [bits, exp], its 53 significant bits, the first one    *)
(* set, and the power of two the first bit stands for                       *)
(***************************************************************************)
RECURSIVE BitsOf(_)
\* The binary digits of a positive integer, highest first.
BitsOf(n) == IF n = 0 THEN <<>> ELSE BitsOf(n \div 2) \o <<n % 2>>

\* The integer a list of binary digits, highest first, stands for.
FromBits(bits) ==
    LET value[b \in Seq({0, 1})] ==
            IF b = <<>> THEN 0
            ELSE 2 * value[SubSeq(b, 1, Len(b) - 1)] + b[Len(b)]
    IN  value[bits]

RECURSIVE Doubled(_, _)
\* n * 2^k
Doubled(n, k) == IF k = 0 THEN n ELSE Doubled(2 * n, k - 1)

RECURSIVE ShiftUp(_, _, _)
\* The least k with n * 2^k >= bound.
ShiftUp(n, bound, k) == IF n >= bound THEN k ELSE ShiftUp(2 * n, bound, k + 1)

RECURSIVE ShiftDown(_, _, _)
\* The greatest k with bound * 2^k <= n, for n >= bound.
ShiftDown(n, bound, k) == IF 2 * bound > n THEN k ELSE ShiftDown(n, 2 * bound, k + 1)

\* The digits plus one in the last place; a carry out of the first place
\* makes the list one digit longer.
AddOne(bits) ==
    LET plus[b \in Seq({0, 1})] ==
            IF b = <<>> THEN <<1>>
            ELSE IF b[Len(b)] = 0 THEN Append(SubSeq(b, 1, Len(b) - 1), 1)
                 ELSE Append(plus[SubSeq(b, 1, Len(b) - 1)], 0)
    IN  plus[bits]

\* Round to nearest, ties to even: the digits of an exact value, the first
\* one set, cut to 53.
RoundToDouble(digits, exp, sticky) ==
    LET round[d \in Seq({0, 1})] ==
            IF Len(d) <= 53
            THEN [bits |-> d \o [i \in 1..(53 - Len(d)) |-> 0], exp |-> exp]
            ELSE LET kept == SubSeq(d, 1, 53)
                     more == \/ sticky
                             \/ \E i \in 55..Len(d) : d[i] = 1
                     up   == d[54] = 1 /\ (more \/ kept[53] = 1)
                     sum  == IF up THEN AddOne(kept) ELSE kept
                 IN  IF Len(sum) = 54
                     THEN [bits |-> SubSeq(sum, 1, 53), exp |-> exp + 1]
                     ELSE [bits |-> sum, exp |-> exp]
    IN  round[digits]

\* The binary digits of num / den, for den <= num < 2 * den, up to the 54th,
\* and whether something is left after them; digits holds those found so far
\* and rem what is left to divide.
LongDivision(rem, den, digits) ==
    LET divide[r \in Nat, d \in Seq({0, 1})] ==
            IF Len(d) = 54 THEN [digits |-> d, sticky |-> r # 0]
            ELSE IF 2 * r >= den
                 THEN divide[2 * r - den, Append(d, 1)]
                 ELSE divide[2 * r, Append(d, 0)]
    IN  divide[rem, digits]

\* a / b for positive integers.
DoubleQuotient(a, b) ==
    LET up   == IF a >= b THEN 0 ELSE ShiftUp(a, b, 0)
        down == IF a >= b THEN ShiftDown(a, b, 0) ELSE 0
        num  == Doubled(a, up)
        den  == Doubled(b, down)
        rest == LongDivision(num - den, den, <<1>>)
    IN  RoundToDouble(rest.digits, down - up, rest.sticky)

\* The digits of bits * n, for a positive integer n, from the last place up;
\* digits holds the places done.
TimesDigits(bits, n, carry, digits) ==
    LET times[b \in Seq({0, 1}), c \in Nat, d \in Seq({0, 1})] ==
            IF Len(d) = Len(b) THEN BitsOf(c) \o d
            ELSE LET t == b[Len(b) - Len(d)] * n + c
                 IN  times[b, t \div 2, <<t % 2>> \o d]
    IN  times[bits, carry, digits]

\* x * n for a positive integer n.
DoubleTimes(x, n) ==
    LET digits == TimesDigits(x.bits, n, 0, <<>>)
    IN  RoundToDouble(digits, x.exp + Len(digits) - 53, FALSE)

\* Math.floor(x)
DoubleFloor(x) ==
    IF x.exp < 0 THEN 0
    ELSE IF x.exp <= 52 THEN FromBits(SubSeq(x.bits, 1, x.exp + 1))
         ELSE Doubled(FromBits(x.bits), x.exp - 52)

\* Math.floor((progress / textGroups.length) * jsonData.length)
ProcessedRowsAt(done, groups, rows) ==
    IF done = 0 \/ rows = 0 THEN 0
    ELSE DoubleFloor(DoubleTimes(DoubleQuotient(done, groups), rows))

\* Lines 700-716: the intermediate output, when enough rows are newly
\* covered; a failed write throws into the catch of line 750.  The loop then
\* waits at line 718.
IntermediateSave ==
    /\ pc = "save"
    /\ UNCHANGED servedList
    /\ LET currentProcessedRows == ProcessedRowsAt(progress, Len(textGroups), Len(jsonData))
       IN  IF currentProcessedRows - processedRows >= config.SAVE_INTERVAL
           THEN \E ok \in BOOLEAN :
                   IF ok
                   THEN /\ translatedFile' =
                               <<Materialize(jsonData, germanColumns, translationCache)>>
                        /\ processedRows' = currentProcessedRows
                        /\ pc' = "delay"
                        /\ UNCHANGED <<exitCode, writeFailed, subBatchPromises>>
                   ELSE /\ Fatal
                        /\ writeFailed' = TRUE
                        /\ subBatchPromises' = {}
                        /\ UNCHANGED <<translatedFile, processedRows>>
           ELSE /\ pc' = "delay"
                /\ UNCHANGED <<translatedFile, processedRows, exitCode, writeFailed,
                               subBatchPromises>>
    /\ UNCHANGED <<runInputs, germanColumns, translationCache, completedTranslations,
                   uniqueTexts, textGroups, batchGroups, groupIndex, batchState,
                   progress, checkpointFile, finalFile, sentIn, dispatched, returned,
                   failedBatches, blankResponse, unlinked, savedAt, silent>>

\* Line 718 and the loop header of line 644: await sleep(config.BATCH_DELAY)
\* ends, then groupIndex++.  The delay is a value of the configuration, so
\* this timer is not ordered against the sub-batch timers still pending.
BatchDelayEnds ==
    /\ pc = "delay"
    /\ servedList' = NotServing
    /\ groupIndex' = groupIndex + 1
    /\ pc' = "loop"
    /\ UNCHANGED <<runInputs, germanColumns, translationCache, completedTranslations,
                   uniqueTexts, textGroups, batchGroups, batchState, subBatchPromises,
                   progress, processedRows, runFiles, runHistory>>

\* Line 644: the loop is over.
FinishLoop ==
    /\ pc = "loop"
    /\ UNCHANGED servedList
    /\ groupIndex >= Len(batchGroups)
    /\ pc' = "cleanup"
    /\ UNCHANGED <<runInputs, germanColumns, translationCache, completedTranslations,
                   uniqueTexts, textGroups, batchGroups, groupIndex, batchState, subBatchPromises,
                   progress, processedRows, runFiles, runHistory>>

\* Lines 740-745: fs.unlink(checkpointPath), its error ignored.
UnlinkCheckpoint ==
    /\ pc = "cleanup"
    /\ servedList' = NotServing
    /\ \E ok \in BOOLEAN :
          IF ok /\ checkpointFile # <<>>
          THEN checkpointFile' = <<>> /\ unlinked' = TRUE
          ELSE UNCHANGED <<checkpointFile, unlinked>>
    /\ pc' = "final"
    /\ UNCHANGED <<runInputs, germanColumns, translationCache, completedTranslations,
                   uniqueTexts, textGroups, batchGroups, groupIndex, batchState, subBatchPromises,
                   progress, processedRows, translatedFile, finalFile, exitCode,
                   sentIn, dispatched, returned, failedBatches,
                   blankResponse, writeFailed, savedAt, silent>>

\* Lines 723-730 and 747-753: the translations are written into the rows of
\* jsonData, then saveToExcel(jsonData, path, true); a failed write throws
\* into the catch, whose process.exit(1) ends the pending timers too.
SaveFinal ==
    /\ pc = "final"
    /\ UNCHANGED servedList
    /\ \E ok \in BOOLEAN :
          IF ok
          THEN /\ finalFile' = <<ApplyFinal(jsonData, germanColumns, translationCache)>>
               /\ pc' = "done"
               /\ exitCode' = 0
               /\ UNCHANGED <<writeFailed, subBatchPromises>>
          ELSE /\ Fatal
               /\ writeFailed' = TRUE
               /\ subBatchPromises' = {}
               /\ UNCHANGED finalFile
    /\ UNCHANGED <<runInputs, germanColumns, translationCache, completedTranslations,
                   uniqueTexts, textGroups, batchGroups, groupIndex, batchState,
                   progress, processedRows, checkpointFile, translatedFile,
                   sentIn, dispatched, returned, failedBatches,
                   blankResponse, unlinked, savedAt, silent>>

(***************************************************************************)
(* The process is killed and the tool is started again on the same input   *)
(***************************************************************************)
\* The process is killed by a signal (no handler is installed): it stops
\* where it is, after the first saveCheckpoint call of the run has returned,
\* and its timers and requests end with it.
\* Killed inside the intermediate write (writeFile truncates, then writes), it
\* leaves the old file or one that cannot be read.
Interrupt ==
    /\ runNo = 1
    /\ servedList' = NotServing
    /\ pc \in {"group", "loop", "await", "checkpoint", "save", "delay", "cleanup",
              "final"}
    /\ pc' = "killed"
    /\ subBatchPromises' = {}
    /\ IF /\ pc = "save"
          /\ ProcessedRowsAt(progress, Len(textGroups), Len(jsonData)) - processedRows
                 >= config.SAVE_INTERVAL
       THEN translatedFile' \in {translatedFile, <<>>}
       ELSE UNCHANGED translatedFile
    /\ UNCHANGED <<runInputs, germanColumns, translationCache, completedTranslations,
                   uniqueTexts, textGroups, batchGroups, groupIndex, batchState,
                   progress, processedRows, checkpointFile, finalFile, exitCode,
                   runHistory, sessVars>>

\* The second invocation: processExcelFile starts over (lines 504-520) with
\* the files the first process left behind.
Resume ==
    /\ pc = "killed"
    /\ servedList' = NotServing
    /\ runNo' = 2
    /\ startCheckpoint' = checkpointFile
    /\ existingTranslations' =
           loadExistingTranslations(translatedFile, DOMAIN existingTranslations)
    /\ pc' = "start"
    /\ germanColumns' = <<>>
    /\ translationCache' = <<>>
    /\ completedTranslations' = 0
    /\ uniqueTexts' = <<>>
    /\ textGroups' = <<>>
    /\ batchGroups' = <<>>
    /\ groupIndex' = 0
    /\ batchState' = <<>>
    /\ subBatchPromises' = {}
    /\ progress' = 0
    /\ processedRows' = 0
    /\ sentIn' = [t \in DOMAIN sentIn |-> {}]
    /\ dispatched' = {}
    /\ returned' = {}
    /\ failedBatches' = {}
    /\ savedAt' = 0
    /\ silent' = {}
    /\ UNCHANGED <<config, jsonData, dryRun, runFiles, blankResponse,
                   writeFailed, unlinked, firstExisting>>

(***************************************************************************)
(* saveCheckpoint (index.js 305-348), one action per file operation        *)
(***************************************************************************)
\* Most calls of saveCheckpoint in one behaviour.
MaxSaves == 2

\* getCheckpointPath of the input file in.xlsx.
CheckpointPath == ".in.checkpoint.json"

\* A path that is the target itself: the record is written in place.
SamePath(checkpointPath) == checkpointPath

\* const tempPath = `${checkpointPath}.tmp`
TempPath(checkpointPath) == checkpointPath \o ".tmp"

Paths == {CheckpointPath, TempPath(CheckpointPath)}

\* JSON.stringify(checkpointData): the fields in order, the translations
\* as JSON writes them, then the closing brace.  A file cut short is a proper prefix of this list.
Stringify(data, stamp) ==
    <<[key |-> "timestamp", val |-> stamp],
      [key |-> "processedRows", val |-> data.processedRows],
      [key |-> "translations", val |-> JsonTranslations(data.translations)],
      [key |-> "lastProcessedFile", val |-> "in.xlsx"],
      [key |-> "totalRows", val |-> data.totalRows],
      [key |-> "config", val |-> "config"],
      [key |-> "}", val |-> 0]>>

\* JSON.parse accepts a text that is closed, and throws on one cut short.
Parses(text) == Len(text) > 0 /\ text[Len(text)].key = "}"

Prefixes(text) == {SubSeq(text, 1, n) : n \in 0..(Len(text) - 1)}

\* The data the calls are made with: the cache of two texts at three moments
\* of a run.
SaveCaches ==
    {<<[k |-> "a", v |-> ""], [k |-> "b", v |-> ""]>>,
     <<[k |-> "a", v |-> Translate("a")], [k |-> "b", v |-> ""]>>,
     <<[k |-> "a", v |-> Translate("a")], [k |-> "b", v |-> ErrorSentinel]>>}
SaveInputs ==
    {CheckpointRecord(Cardinality({i \in DOMAIN c : c[i].v # ""}), c, Len(c)) :
        c \in SaveCaches}

\* A record left by an earlier run.
OldText == Stringify(CheckpointRecord(0, <<[k |-> "a", v |-> ""]>>, 1), 0)

\* checkpoint.field || fallback on the parsed text: the value of the field,
\* the fallback when the field is missing or its value is falsy.
FieldOr(text, field, fallback) ==
    LET hits == {i \in DOMAIN text : text[i].key = field}
    IN  IF hits = {} THEN fallback
        ELSE LET val == text[CHOOSE i \in hits : \A j \in hits : i <= j].val
             IN  IF val = fallback THEN fallback ELSE val

\* The object loadCheckpoint builds from the parsed text.
RecordOf(text) ==
    CheckpointRecord(FieldOr(text, "processedRows", 0),
                     FieldOr(text, "translations", <<>>),
                     FieldOr(text, "totalRows", 0))

\* loadCheckpoint has not been called, and its return value null.
NotLoaded ==
    [called |-> FALSE, dirOk |-> TRUE, readOk |-> TRUE, isNull |-> TRUE,
     record |-> CheckpointRecord(0, <<>>, 0)]
Null(dirOk, readOk) ==
    [called |-> TRUE, dirOk |-> dirOk, readOk |-> readOk, isNull |-> TRUE,
     record |-> CheckpointRecord(0, <<>>, 0)]

\* A loadCheckpoint that takes whatever text the file holds.
loadCheckpointUnparsed(file, dirOk, readOk) ==
    IF ~dirOk THEN Null(dirOk, readOk)
    ELSE IF file = <<>> \/ ~readOk THEN Null(dirOk, readOk)
    ELSE [called |-> TRUE, dirOk |-> dirOk, readOk |-> readOk, isNull |-> FALSE,
          record |-> RecordOf(file[1])]

\* loadCheckpoint (index.js 252-298, checkpoint.js 56-102) on the content of
\* the checkpoint file: ensureCheckpointDirectory passes or throws (dirOk),
\* readFile finds no file, fails otherwise (readOk) or gives the text, and
\* JSON.parse throws on a text cut short; every error gives null.
loadCheckpoint(file, dirOk, readOk) ==
    IF ~dirOk THEN Null(dirOk, readOk)
    ELSE IF file = <<>> \/ ~readOk THEN Null(dirOk, readOk)
    ELSE IF ~Parses(file[1]) THEN Null(dirOk, readOk)
    ELSE [called |-> TRUE, dirOk |-> dirOk, readOk |-> readOk, isNull |-> FALSE,
          record |-> RecordOf(file[1])]

\* A call of loadCheckpoint between two saves, or by the process started
\* after a crash.
Load ==
    /\ savePc \in {"idle", "crashed"}
    /\ ~loadResult.called
    /\ \E dirOk \in BOOLEAN, readOk \in BOOLEAN :
          loadResult' = loadCheckpoint(fs[CheckpointPath], dirOk, readOk)
    /\ UNCHANGED <<fs, savePc, saveData, savePrev, saveRenamed, saveCount,
                   saveOutcome, lastSaved>>

SaveStart ==
    /\ savePc = "idle"
    /\ saveCount < MaxSaves
    /\ saveData' \in SaveInputs
    /\ savePrev' = fs[CheckpointPath]
    /\ saveRenamed' = FALSE
    /\ saveCount' = saveCount + 1
    /\ savePc' = "write"
    /\ saveOutcome' = "none"
    /\ loadResult' = NotLoaded
    /\ UNCHANGED <<fs, lastSaved>>

\* fs.writeFile(tempPath, text): the whole text, or an error that leaves the
\* file cut short, or an error before the file is opened.
SaveWrite ==
    /\ savePc = "write"
    /\ LET text == Stringify(saveData, saveCount)
       IN  \/ /\ fs' = [fs EXCEPT ![TempPath(CheckpointPath)] = <<text>>]
              /\ savePc' = "verify"
           \/ /\ \E part \in Prefixes(text) :
                    fs' = [fs EXCEPT ![TempPath(CheckpointPath)] = <<part>>]
              /\ savePc' = "cleanup"
           \/ /\ UNCHANGED fs
              /\ savePc' = "cleanup"
    /\ UNCHANGED <<saveData, savePrev, saveRenamed, saveCount, saveOutcome,
                   lastSaved, loadResult>>

\* fs.readFile(tempPath) and JSON.parse of what was read.
SaveVerify ==
    /\ savePc = "verify"
    /\ \E readOk \in BOOLEAN :
          savePc' = IF /\ readOk
                       /\ fs[TempPath(CheckpointPath)] # <<>>
                       /\ Parses(fs[TempPath(CheckpointPath)][1])
                    THEN "rename" ELSE "cleanup"
    /\ UNCHANGED <<fs, saveData, savePrev, saveRenamed, saveCount, saveOutcome,
                   lastSaved, loadResult>>

\* fs.rename(tempPath, checkpointPath): the target is replaced in one step, or
\* the call fails and nothing moves.
SaveRename ==
    /\ savePc = "rename"
    /\ \/ /\ fs' = [p \in DOMAIN fs |->
                       IF p = CheckpointPath THEN fs[TempPath(CheckpointPath)]
                       ELSE IF p = TempPath(CheckpointPath) THEN <<>>
                       ELSE fs[p]]
          /\ saveRenamed' = TRUE
          /\ savePc' = "access"
       \/ /\ UNCHANGED <<fs, saveRenamed>>
          /\ savePc' = "cleanup"
    /\ UNCHANGED <<saveData, savePrev, saveCount, saveOutcome, lastSaved, loadResult>>

\* fs.access(checkpointPath): the last check of the inner try.
SaveAccess ==
    /\ savePc = "access"
    /\ \E ok \in BOOLEAN :
          /\ savePc' = IF ok THEN "idle" ELSE "cleanup"
          /\ saveOutcome' = IF ok THEN "ok" ELSE saveOutcome
          /\ lastSaved' = IF ok THEN fs[CheckpointPath] ELSE lastSaved
    /\ UNCHANGED <<fs, saveData, savePrev, saveRenamed, saveCount, loadResult>>

\* A cleanup that removes the checkpoint itself.
UnlinksTarget(checkpointPath) == checkpointPath

\* fs.unlink(tempPath) of the inner catch.
UnlinkedOnError(checkpointPath) == TempPath(checkpointPath)

\* The inner catch: fs.unlink(tempPath) with its error ignored, then the
\* rethrow that the outer catch logs and swallows.
SaveCleanup ==
    /\ savePc = "cleanup"
    /\ \E ok \in BOOLEAN :
          fs' = IF ok THEN [fs EXCEPT ![UnlinkedOnError(CheckpointPath)] = <<>>] ELSE fs
    /\ savePc' = "idle"
    /\ saveOutcome' = "failed"
    /\ UNCHANGED <<saveData, savePrev, saveRenamed, saveCount, lastSaved, loadResult>>

\* The process is killed inside the call; killed inside writeFile, it leaves
\* the temporary file cut short.
SaveCrash ==
    /\ savePc \in {"write", "verify", "rename", "access", "cleanup"}
    /\ IF savePc = "write"
       THEN \/ UNCHANGED fs
            \/ \E part \in Prefixes(Stringify(saveData, saveCount)) :
                  fs' = [fs EXCEPT ![TempPath(CheckpointPath)] = <<part>>]
       ELSE UNCHANGED fs
    /\ savePc' = "crashed"
    /\ UNCHANGED <<saveData, savePrev, saveRenamed, saveCount, saveOutcome,
                   lastSaved, loadResult>>

(***************************************************************************)
(* The service module (progress.js 172-266): translateBatch, which calls   *)
(* translateSingle for one text after the other                            *)
(***************************************************************************)
\* Longest texts argument of the service's translateBatch.
MaxServiceTexts == 3

FailedMarker == "[TRANSLATION FAILED]"

ServiceUnique == UniqueTextsOf(svcTexts)

\* Lines 227-235: the call begins; an argument without texts returns at once.
ServiceStart ==
    /\ svcPc = "call"
    /\ svcPc' = IF Len(ServiceUnique) = 0 THEN "returned" ELSE "single"
    /\ UNCHANGED <<svcTexts, svcI, svcRetryCount, svcResults, svcFailedTexts,
                   svcAttempts>>

\* Lines 257-265 when the loop is over, else the next text: failed texts get
\* their marker and the call returns.
ServiceAdvance(results, failed) ==
    IF svcI + 1 < Len(ServiceUnique)
    THEN /\ svcI' = svcI + 1
         /\ svcRetryCount' = 0
         /\ svcAttempts' = 0
         /\ svcResults' = results
         /\ svcFailedTexts' = failed
         /\ svcPc' = "single"
    ELSE /\ svcResults' = MapSetAll(results,
                 [j \in DOMAIN failed |-> [k |-> failed[j], v |-> FailedMarker]])
         /\ svcFailedTexts' = failed
         /\ svcPc' = "returned"
         /\ UNCHANGED <<svcI, svcRetryCount, svcAttempts>>

\* translateSingle, lines 177-202: the request is answered 2xx; back in
\* translateBatch the translation is stored (lines 243-244).
SingleSucceeds ==
    /\ svcPc = "single"
    /\ LET text == ServiceUnique[svcI + 1]
       IN  ServiceAdvance(MapSet(svcResults, text, Translate(text)), svcFailedTexts)
    /\ UNCHANGED svcTexts

\* translateSingle, lines 203-214: the request fails and retryCount is below
\* MAX_RETRIES; the function calls itself with retryCount + 1.
SingleRetries ==
    /\ svcPc = "single"
    /\ svcRetryCount < MAX_RETRIES
    /\ svcRetryCount' = svcRetryCount + 1
    /\ svcAttempts' = svcAttempts + 1
    /\ UNCHANGED <<svcTexts, svcPc, svcI, svcResults, svcFailedTexts>>

\* translateSingle, line 215: the request fails with retryCount at
\* MAX_RETRIES; the error reaches translateBatch, whose catch (lines
\* 248-253) pushes the text onto failedTexts and starts to wait 2000 ms.
SingleGivesUp ==
    /\ svcPc = "single"
    /\ ~(svcRetryCount < MAX_RETRIES)
    /\ svcFailedTexts' = Append(svcFailedTexts, ServiceUnique[svcI + 1])
    /\ svcPc' = "pause"
    /\ UNCHANGED <<svcTexts, svcI, svcRetryCount, svcResults, svcAttempts>>

\* Line 253 has waited: the loop goes on to the next text, or is over
\* (lines 257-265).
FailurePauseEnds ==
    /\ svcPc = "pause"
    /\ ServiceAdvance(svcResults, svcFailedTexts)
    /\ UNCHANGED svcTexts

(***************************************************************************)
(* RateLimiter (progress.js 141-164) and the translateSingle calls that    *)
(* wait on it (172-219).  Time is counted in units; the instance of line   *)
(* 164 allows 30 requests per 10000 ms, and translateSingle aborts its     *)
(* request 30000 ms after it was entered, three windows later.             *)
(***************************************************************************)
\* maxRequests and timeWindow of the instance, scaled.
LimiterMaxRequests == 1
LimiterTimeWindow == 2
\* The translateSingle calls that may run side by side, and the last instant.
MaxCallers == 4
MaxClock == 6

Callers == 1..MaxCallers
\* setTimeout(() => controller.abort(), 30000): three time windows.
AbortAfter == 3 * LimiterTimeWindow

\* Line 150: the filter keeps the times younger than the window.
KeptRequests(reqs, now) == SelectSeq(reqs, LAMBDA time : time > now - LimiterTimeWindow)

LimitReachedAbove(reqs) == Len(reqs) > LimiterMaxRequests
\* Line 152.
LimitReached(reqs) == Len(reqs) >= LimiterMaxRequests

\* state: where the call is; start: when it was entered; wake: when its
\* waitForSlot timer is due; sent: when its request went out.
CallerIdle == [state |-> "idle", start |-> 0, wake |-> 0, sent |-> 0]

\* Lines 181-195 and 203: what the call does once waitForSlot has resolved.
\* The abort timer was set at the entry of translateSingle, before the wait:
\* past its deadline the signal is aborted, fetch rejects without sending
\* and the attempt goes to the catch; at the deadline itself either timer
\* may run first.
FetchOutcomes(start, now) ==
    IF now > start + AbortAfter THEN {"aborted"}
    ELSE IF now = start + AbortAfter THEN {"aborted", "sent"}
    ELSE {"sent"}

\* Lines 149-159: one pass of waitForSlot for caller c, whose translateSingle
\* call was entered at start; it runs to its await or to its end in one
\* piece, and the code after `await rateLimiter.waitForSlot()` follows a
\* grant in the same turn.
waitForSlot(c, start) ==
    LET now  == clock
        kept == KeptRequests(requests, now)
    IN  IF LimitReached(kept)
        THEN /\ requests' = kept
             /\ callers' = [callers EXCEPT ![c] =
                               [state |-> "waiting", start |-> start,
                                wake |-> kept[1] + LimiterTimeWindow, sent |-> 0]]
             /\ UNCHANGED grants
        ELSE /\ requests' = Append(kept, now)
             /\ grants' = Append(grants, now)
             /\ \E outcome \in FetchOutcomes(start, now) :
                   callers' = [callers EXCEPT ![c] =
                                  [state |-> outcome, start |-> start, wake |-> 0,
                                   sent |-> IF outcome = "sent" THEN now ELSE 0]]

\* Lines 172-179: translateSingle is entered, sets its abort timer and calls
\* waitForSlot.  The calls are numbered in the order they are entered.
EnterSingle(c) ==
    /\ callers[c].state = "idle"
    /\ \A d \in 1..(c - 1) : callers[d].state # "idle"
    /\ waitForSlot(c, clock)
    /\ UNCHANGED clock

\* Lines 155-156: the timer of a waiting caller fires and waitForSlot runs
\* again.
WakeCaller(c) ==
    /\ callers[c].state = "waiting"
    /\ clock >= callers[c].wake
    /\ waitForSlot(c, callers[c].start)
    /\ UNCHANGED clock

\* Lines 197-202: the backend answers the request of caller c.
Respond(c) ==
    /\ callers[c].state = "sent"
    /\ callers' = [callers EXCEPT ![c].state = "answered"]
    /\ UNCHANGED <<clock, requests, grants>>

\* Line 175: the abort timer of caller c fires while its request is in
\* flight; fetch rejects and the attempt goes to the catch of line 203.
AbortFires(c) ==
    /\ callers[c].state = "sent"
    /\ clock >= callers[c].start + AbortAfter
    /\ callers' = [callers EXCEPT ![c].state = "timedOut"]
    /\ UNCHANGED <<clock, requests, grants>>

\* Time passes; the timers that are due run first (the event loop is idle
\* while the callers wait).
Tick ==
    /\ clock < MaxClock
    /\ \A c \in Callers : callers[c].state = "waiting" => clock < callers[c].wake
    /\ \A c \in Callers : callers[c].state = "sent" => clock < callers[c].start + AbortAfter
    /\ clock' = clock + 1
    /\ UNCHANGED <<requests, callers, grants>>

LimFresh ==
    /\ clock = 0
    /\ requests = <<>>
    /\ grants = <<>>

LimIdle ==
    /\ LimFresh
    /\ callers = <<>>

(***************************************************************************)
(* ProgressMonitor (progress.js 6-119).  Time is counted in units of half  *)
(* the stall-check interval.                                               *)
(***************************************************************************)
\* Time units in five minutes.
FiveMinutes == 2
\* this.stallCheckInterval = 5 * 60 * 1000
stallCheckInterval == FiveMinutes
TenMinutes == 2 * FiveMinutes
ThirtyMinutes == 6 * FiveMinutes
\* The last instant and the largest count observed.
MaxMonitorClock == 7
MaxCount == 2

\* A checkForStall with a rate threshold of 0.2 items per minute: a count
\* that grew by one in ten minutes is below it.
checkForStallCoarseRate(history, lastCheck, currentCount, now) ==
    IF now - lastCheck < stallCheckInterval
    THEN [isStalled |-> FALSE, lastStallCheck |-> lastCheck, evaluated |-> FALSE]
    ELSE LET recentHistory == SelectSeq(history, LAMBDA p : p.timestamp > now - TenMinutes)
             lastFive      == SelectSeq(history, LAMBDA p : p.timestamp > now - FiveMinutes)
             noRecentProgress == \A i \in DOMAIN lastFive : lastFive[i].count = currentCount
         IN  [isStalled |->
                  IF Len(recentHistory) < 2 THEN FALSE
                  ELSE noRecentProgress \/ currentCount - recentHistory[1].count < 2,
              lastStallCheck |-> now,
              evaluated |-> TRUE]

\* Lines 84-108: checkForStall(currentCount, now) on the history as
\* updateProgress has left it; the value returned and the new lastStallCheck.
checkForStall(history, lastCheck, currentCount, now) ==
    IF now - lastCheck < stallCheckInterval
    THEN [isStalled |-> FALSE, lastStallCheck |-> lastCheck, evaluated |-> FALSE]
    ELSE LET recentHistory == SelectSeq(history, LAMBDA p : p.timestamp > now - TenMinutes)
             lastFive      == SelectSeq(history, LAMBDA p : p.timestamp > now - FiveMinutes)
             noRecentProgress == \A i \in DOMAIN lastFive : lastFive[i].count = currentCount
         IN  [isStalled |->
                  IF Len(recentHistory) < 2 THEN FALSE
                  ELSE \* recentProgressRate = (difference) / 10 is below 0.1
                       \* exactly when the difference is below 1
                       noRecentProgress \/ currentCount - recentHistory[1].count < 1,
              lastStallCheck |-> now,
              evaluated |-> TRUE]

\* Lines 22-76: updateProgress(newProgress), as far as the stall flag goes.
updateProgress(newProgress) ==
    LET now     == monNow
        pushed  == Append(progressHistory, [timestamp |-> now, count |-> newProgress])
        history == SelectSeq(pushed, LAMBDA p : p.timestamp > now - ThirtyMinutes)
        stall   == checkForStall(history, lastStallCheck, newProgress, now)
    IN  /\ progressHistory' = history
        /\ lastStallCheck' = stall.lastStallCheck
        /\ currentProgress' = newProgress
        /\ monStatus' = [isStalled |-> stall.isStalled, evaluated |-> stall.evaluated,
                         observed |-> TRUE]
        /\ UNCHANGED monNow

\* The caller observes a count, the same as before or a higher one; at most
\* one observation is made per time unit.
Observe ==
    /\ ~monStatus.observed
    /\ \E newProgress \in currentProgress..MaxCount : updateProgress(newProgress)

MonitorTick ==
    /\ monNow < MaxMonitorClock
    /\ monNow' = monNow + 1
    /\ monStatus' = [monStatus EXCEPT !.observed = FALSE]
    /\ UNCHANGED <<progressHistory, lastStallCheck, currentProgress>>

\* Lines 7-15: the constructor, at time 0.
MonFresh ==
    /\ monNow = 0
    /\ progressHistory = <<>>
    /\ lastStallCheck = 0
    /\ monStatus = [isStalled |-> FALSE, evaluated |-> FALSE, observed |-> FALSE]

MonIdle ==
    /\ MonFresh
    /\ currentProgress = 0

(***************************************************************************)
(* The column filter (index.js 535-539) on one header                      *)
(***************************************************************************)
\* Header names: with and without the suffix, from the lists of the program
\* and from neither.
ColumnNames == {"Title_DE", "Credit_DE", "IPTC_DE_Headline", "AI_keywords_DE",
                "IPTC_DE_Credit", "IPTC_DE_Aufnahmedatum", "Notes", "Title_EN"}

\* Lines 535-539: headers.filter keeps, in order, the headers the predicate
\* selects.
FilterHeader ==
    /\ colSelected = <<>>
    /\ colSelected' = <<SelectSeq(colHeaders,
                                  LAMBDA h : SelectsColumn(h, colTranslate, colIgnore))>>
    /\ UNCHANGED <<colHeaders, colTranslate, colIgnore>>

HostFresh ==
    /\ hostConfig = <<>>
    /\ hostI = 0
    /\ hostGroups = <<>>

HostIdle ==
    /\ hostCpu = 1
    /\ hostLowMemory = FALSE
    /\ hostModule = FALSE
    /\ hostBatches = 0
    /\ HostFresh

TbFresh ==
    /\ tbPc = "issue"
    /\ tbRetry = 0
    /\ tbRequests = <<>>
    /\ tbServed = 0
    /\ tbResult = <<>>

TbIdle ==
    /\ tbTexts = <<>>
    /\ tbParallel = 1
    /\ TbFresh

ColIdle ==
    /\ colHeaders = <<>>
    /\ colTranslate = {}
    /\ colIgnore = {}
    /\ colSelected = <<>>

(***************************************************************************)
(* The parts of the state a specification does not use stay as they are    *)
(***************************************************************************)
GroupIdle ==
    /\ gTexts = <<>>
    /\ gMaxLen = 0
    /\ gBatchSize = 0
    /\ gGroups = <<>>
    /\ gPc = "idle"

RunStart ==
    /\ pc = "start"
    /\ germanColumns = <<>>
    /\ translationCache = <<>>
    /\ completedTranslations = 0
    /\ uniqueTexts = <<>>
    /\ textGroups = <<>>
    /\ batchGroups = <<>>
    /\ groupIndex = 0
    /\ batchState = <<>>
    /\ subBatchPromises = {}
    /\ servedList = NotServing
    /\ progress = 0
    /\ processedRows = 0
    /\ translatedFile = PriorArtifact(existingTranslations)
    /\ finalFile = <<>>
    /\ exitCode = -1
    /\ sentIn = [t \in DOMAIN existingTranslations |-> {}]
    /\ dispatched = {}
    /\ returned = {}
    /\ failedBatches = {}
    /\ blankResponse = FALSE
    /\ writeFailed = FALSE
    /\ unlinked = FALSE
    /\ savedAt = 0
    /\ silent = {}

\* A run that translates, started with no checkpoint on disk.
RunFresh ==
    /\ dryRun = FALSE
    /\ checkpointFile = <<>>
    /\ RunStart

\* The first run on an input, with no checkpoint on disk.
FirstRun ==
    /\ runNo = 1
    /\ firstExisting = existingTranslations
    /\ startCheckpoint = <<>>

RunIdle ==
    /\ config = [PARALLEL_BATCHES |-> 1, BATCH_SIZE |-> 1,
                 MAX_TEXT_LENGTH |-> MAX_TEXT_LENGTH, MAX_RETRIES |-> MAX_RETRIES,
                 CHECKPOINT_INTERVAL |-> CheckpointEvery, SAVE_INTERVAL |-> SaveEvery]
    /\ jsonData = <<>>
    /\ existingTranslations = [t \in RunTexts |-> ""]
    /\ FirstRun
    /\ RunFresh

CkptFresh ==
    /\ savePc = "idle"
    /\ saveData = CheckpointRecord(0, <<>>, 0)
    /\ savePrev = fs[CheckpointPath]
    /\ saveRenamed = FALSE
    /\ saveCount = 0
    /\ saveOutcome = "none"
    /\ lastSaved = IF fs[CheckpointPath] # <<>> /\ Parses(fs[CheckpointPath][1])
                   THEN fs[CheckpointPath] ELSE <<>>
    /\ loadResult = NotLoaded

CkptIdle ==
    /\ fs = [p \in Paths |-> <<>>]
    /\ CkptFresh

SvcFresh ==
    /\ svcPc = "call"
    /\ svcI = 0
    /\ svcRetryCount = 0
    /\ svcResults = <<>>
    /\ svcFailedTexts = <<>>
    /\ svcAttempts = 0

SvcIdle ==
    /\ svcTexts = <<>>
    /\ SvcFresh

(***************************************************************************)
(* Specification Spec: one run of processExcelFile                         *)
(***************************************************************************)
Init ==
    /\ config \in Configs
    /\ jsonData \in Datasets
    /\ existingTranslations \in ExistingChoices
    /\ FirstRun
    /\ RunFresh
    /\ GroupIdle
    /\ CkptIdle
    /\ SvcIdle
    /\ LimIdle
    /\ MonIdle
    /\ ColIdle
    /\ TbIdle
    /\ HostIdle

Next ==
    \/ Build /\ UNCHANGED <<sessVars, notRun>>
    \/ InitialCheckpoint /\ UNCHANGED <<sessVars, notRun>>
    \/ GroupTexts /\ UNCHANGED <<sessVars, notRun>>
    \/ DispatchGroup /\ UNCHANGED <<sessVars, notRun>>
    \/ \E q \in subBatchPromises : RequestSent(q) /\ UNCHANGED <<sessVars, notRun>>
    \/ \E q \in subBatchPromises : RequestAnswered(q) /\ UNCHANGED <<sessVars, notRun>>
    \/ \E q \in subBatchPromises : RequestFails(q) /\ UNCHANGED <<sessVars, notRun>>
    \/ \E i \in DOMAIN batchState : RetryWakes(i) /\ UNCHANGED <<sessVars, notRun>>
    \/ MergeGroup /\ UNCHANGED <<sessVars, notRun>>
    \/ PeriodicCheckpoint /\ UNCHANGED <<sessVars, notRun>>
    \/ IntermediateSave /\ UNCHANGED <<sessVars, notRun>>
    \/ BatchDelayEnds /\ UNCHANGED <<sessVars, notRun>>
    \/ FinishLoop /\ UNCHANGED <<sessVars, notRun>>
    \/ UnlinkCheckpoint /\ UNCHANGED <<sessVars, notRun>>
    \/ SaveFinal /\ UNCHANGED <<sessVars, notRun>>

Spec == Init /\ [][Next]_vars

(***************************************************************************)
(* Specification SpecResume: a run on a backend that answers every request, *)
(* killed at some point and started again                                  *)
(***************************************************************************)
\* Rows of the sheets that are run twice, and the most rows of such a sheet.
ResumeRowChoices == {RowOf(<<"a", "cc">>), RowOf(<<"b", "">>), RowOf(<<"", "cc">>),
                     RowOf(<<"cc", "cc">>)}
MaxResumeRows == 2

\* The prior artifact of the first run: none, one holding a value the backend
\* no longer gives, one written with the backend of today.
ResumeExisting ==
    ExistingChoices \cup {[t \in RunTexts |-> IF t = "a" THEN Translate(t) ELSE ""]}

ResumeInit ==
    /\ config \in Configs
    /\ jsonData \in UNION {[1..n -> ResumeRowChoices] : n \in 1..MaxResumeRows}
    /\ existingTranslations \in ResumeExisting
    /\ FirstRun
    /\ RunFresh
    /\ GroupIdle
    /\ CkptIdle
    /\ SvcIdle
    /\ LimIdle
    /\ MonIdle
    /\ ColIdle
    /\ TbIdle
    /\ HostIdle

ResumeNext ==
    \/ Build /\ UNCHANGED <<sessVars, notRun>>
    \/ InitialCheckpoint /\ UNCHANGED <<sessVars, notRun>>
    \/ GroupTexts /\ UNCHANGED <<sessVars, notRun>>
    \/ DispatchGroup /\ UNCHANGED <<sessVars, notRun>>
    \/ \E q \in subBatchPromises : RequestSent(q) /\ UNCHANGED <<sessVars, notRun>>
    \/ \E q \in subBatchPromises : RequestAnswered(q) /\ UNCHANGED <<sessVars, notRun>>
    \/ MergeGroup /\ UNCHANGED <<sessVars, notRun>>
    \/ PeriodicCheckpoint /\ UNCHANGED <<sessVars, notRun>>
    \/ IntermediateSave /\ UNCHANGED <<sessVars, notRun>>
    \/ BatchDelayEnds /\ UNCHANGED <<sessVars, notRun>>
    \/ FinishLoop /\ UNCHANGED <<sessVars, notRun>>
    \/ UnlinkCheckpoint /\ UNCHANGED <<sessVars, notRun>>
    \/ SaveFinal /\ UNCHANGED <<sessVars, notRun>>
    \/ Interrupt /\ UNCHANGED notRun
    \/ Resume /\ UNCHANGED notRun

SpecResume == ResumeInit /\ [][ResumeNext]_vars

\* C11: at run start every text of the dataset that has a non-empty
\* translation in the checkpoint found on disk is in the cache with that
\* translation and is not in the pending list.
C11_CheckpointSeedsCache ==
    (pc \notin {"start", "killed"} /\ startCheckpoint # <<>>) =>
        \A e \in Range(startCheckpoint[1].translations) :
            (e.v # "" /\ MapHas(translationCache, e.k)) =>
                /\ e.k \notin Range(uniqueTexts)
                /\ MapGet(translationCache, e.k) = e.v

\* The cache at the end of one uninterrupted run on a backend that answers
\* every request: the build, then every batch merged in order.
UninterruptedCache(cfg, data, existing) ==
    LET cols    == GermanColumnsOf(data)
        cache0  == BuildCache(CellsOf(data, cols), existing, <<>>)
        groups  == groupTextsByLength(PendingTexts(cache0), cfg.MAX_TEXT_LENGTH,
                                      cfg.BATCH_SIZE)
        results == [g \in DOMAIN groups |->
                       SuccessResult(UniqueTextsOf(groups[g]), cfg.PARALLEL_BATCHES, {})]
    IN  MapSetAll(cache0, Flatten(results))

\* The backend is deterministic: no request failed for good and no response
\* was blank.
DeterministicBackend ==
    /\ ~blankResponse
    /\ failedBatches = {}

RunEnded == pc \in {"cleanup", "final", "done"}

\* C12: with a deterministic backend, a run that was started again after a
\* kill that followed the first checkpoint save (it found the checkpoint of
\* the killed run) ends with the cache a single uninterrupted run on the
\* same input ends with.  The run started again takes nothing from the
\* checkpoint; a kill inside the write of the intermediate artifact leaves a
\* file the loader cannot read, and what the first run took from the prior
\* artifact is then translated anew.
C12_ResumedCacheSame ==
    (runNo = 2 /\ startCheckpoint # <<>> /\ RunEnded /\ DeterministicBackend) =>
        translationCache = UninterruptedCache(config, jsonData, firstExisting)

\* C20: once the shutdown signal is raised no batch is left in flight and a
\* checkpoint of the current cache is on disk when the process has ended.
C20_SignalDrainsAndCheckpoints ==
    pc = "killed" =>
        /\ \A i \in DOMAIN batchState : ~batchState[i].running
        /\ checkpointFile # <<>>
        /\ checkpointFile[1].translations = translationCache

(***************************************************************************)
(* Specification SpecRerun: a first run with no prior artifact, on a       *)
(* backend that may fail, killed at some point and started again           *)
(***************************************************************************)
RerunInit ==
    /\ config \in {c \in Configs : c.BATCH_SIZE = 1 /\ c.PARALLEL_BATCHES = 1}
    /\ jsonData \in UNION {[1..n -> ResumeRowChoices] : n \in 1..MaxResumeRows}
    /\ existingTranslations = [t \in RunTexts |-> ""]
    /\ FirstRun
    /\ RunFresh
    /\ GroupIdle
    /\ CkptIdle
    /\ SvcIdle
    /\ LimIdle
    /\ MonIdle
    /\ ColIdle
    /\ TbIdle
    /\ HostIdle

RerunNext ==
    \/ ResumeNext
    \/ \E q \in subBatchPromises : RequestFails(q) /\ UNCHANGED <<sessVars, notRun>>
    \/ \E i \in DOMAIN batchState : RetryWakes(i) /\ UNCHANGED <<sessVars, notRun>>

SpecRerun == RerunInit /\ [][RerunNext]_vars

\* C21: when a run in which no batch failed for good has written the final
\* output, every non-empty cell of a selected column has, in its row's
\* derived column, the value the cache holds for its text, and that value is
\* not the error sentinel.
C21_DerivedHoldsTranslation ==
    (pc = "done" /\ finalFile # <<>> /\ failedBatches = {}) =>
        \A r \in DOMAIN jsonData :
            \A c \in Range(germanColumns) :
                Cell(jsonData[r], c) # "" =>
                    /\ finalFile[1][r][EnglishColumn(c)]
                           = MapGet(translationCache, jsonData[r][c])
                    /\ finalFile[1][r][EnglishColumn(c)] # ErrorSentinel

(***************************************************************************)
(* Specification SpecBlank: runs on sheets with cells that hold only       *)
(* spaces                                                                  *)
(***************************************************************************)
\* Rows with a cell of one space or of two.
BlankRowChoices == {RowOf(<<" ", "cc">>), RowOf(<<"a", "  ">>), RowOf(<<"a", "">>)}
BlankTexts == UNION {Range(r) : r \in BlankRowChoices} \ {""}

BlankInit ==
    /\ config \in Configs
    /\ jsonData \in UNION {[1..n -> BlankRowChoices] : n \in 1..MaxRows}
    /\ existingTranslations = [t \in BlankTexts |-> ""]
    /\ FirstRun
    /\ RunFresh
    /\ GroupIdle
    /\ CkptIdle
    /\ SvcIdle
    /\ LimIdle
    /\ MonIdle
    /\ ColIdle
    /\ TbIdle
    /\ HostIdle

SpecBlank == BlankInit /\ [][Next]_vars

\* A cell value with nothing in it but spaces (the empty value included).
IsBlank(text) == \A i \in 1..Len(text) : SubSeq(text, i, i) = " "

\* C27: no key of the translation cache is empty or made of spaces only.
C27_NoBlankKey ==
    \A k \in Range(MapKeys(translationCache)) : ~IsBlank(k)

(***************************************************************************)
(* Specification SpecCadence: runs of up to six batches under every        *)
(* PARALLEL_BATCHES and CHECKPOINT_INTERVAL up to the bounds, on a backend *)
(* that answers every request                                              *)
(***************************************************************************)
\* Largest PARALLEL_BATCHES and CHECKPOINT_INTERVAL of these runs, and the
\* most rows of their sheets.
MaxCadenceParallel == 3
MaxCadenceInterval == 3
MaxCadenceRows == 3

\* Rows with two new texts each, so that a sheet of the first n rows gives
\* 2n batches of one text.
CadenceRows == [n \in 1..MaxCadenceRows |->
                   RowOf(<<SubSeq("abcd", n, n), SubSeq("eeffgghh", 2 * n - 1, 2 * n)>>)]
CadenceTexts == UNION {Range(CadenceRows[n]) : n \in DOMAIN CadenceRows}

CadenceConfigs == [PARALLEL_BATCHES : 1..MaxCadenceParallel,
                   BATCH_SIZE : {1},
                   MAX_TEXT_LENGTH : {MAX_TEXT_LENGTH},
                   MAX_RETRIES : {MAX_RETRIES},
                   CHECKPOINT_INTERVAL : 1..MaxCadenceInterval,
                   SAVE_INTERVAL : {SaveEvery}]

CadenceInit ==
    /\ config \in CadenceConfigs
    /\ jsonData \in {SubSeq(CadenceRows, 1, n) : n \in 1..MaxCadenceRows}
    /\ existingTranslations = [t \in CadenceTexts |-> ""]
    /\ FirstRun
    /\ RunFresh
    /\ GroupIdle
    /\ CkptIdle
    /\ SvcIdle
    /\ LimIdle
    /\ MonIdle
    /\ ColIdle
    /\ TbIdle
    /\ HostIdle

CadenceNext ==
    \/ Build /\ UNCHANGED <<sessVars, notRun>>
    \/ InitialCheckpoint /\ UNCHANGED <<sessVars, notRun>>
    \/ GroupTexts /\ UNCHANGED <<sessVars, notRun>>
    \/ DispatchGroup /\ UNCHANGED <<sessVars, notRun>>
    \/ \E q \in subBatchPromises : RequestSent(q) /\ UNCHANGED <<sessVars, notRun>>
    \/ \E q \in subBatchPromises : RequestAnswered(q) /\ UNCHANGED <<sessVars, notRun>>
    \/ MergeGroup /\ UNCHANGED <<sessVars, notRun>>
    \/ PeriodicCheckpoint /\ UNCHANGED <<sessVars, notRun>>
    \/ IntermediateSave /\ UNCHANGED <<sessVars, notRun>>
    \/ BatchDelayEnds /\ UNCHANGED <<sessVars, notRun>>
    \/ FinishLoop /\ UNCHANGED <<sessVars, notRun>>
    \/ UnlinkCheckpoint /\ UNCHANGED <<sessVars, notRun>>
    \/ SaveFinal /\ UNCHANGED <<sessVars, notRun>>

SpecCadence == CadenceInit /\ [][CadenceNext]_vars

\* C14: whenever a group of batches is in flight, fewer than
\* CHECKPOINT_INTERVAL batches have resolved since the last saveCheckpoint
\* call of the loop (since the start of the loop when there was none).
C14_SavedEveryNBatches ==
    pc = "await" => progress - savedAt < config.CHECKPOINT_INTERVAL

(***************************************************************************)
(* Specification SpecHang: a run on a backend that may leave a request     *)
(* unanswered; every step that can be taken is taken                       *)
(***************************************************************************)
HangInit ==
    /\ config \in Configs
    /\ jsonData \in UNION {[1..n -> ResumeRowChoices] : n \in 1..MaxResumeRows}
    /\ existingTranslations = [t \in RunTexts |-> ""]
    /\ FirstRun
    /\ RunFresh
    /\ GroupIdle
    /\ CkptIdle
    /\ SvcIdle
    /\ LimIdle
    /\ MonIdle
    /\ ColIdle
    /\ TbIdle
    /\ HostIdle

HangNext ==
    \/ Next
    \/ \E q \in subBatchPromises : RequestHangs(q) /\ UNCHANGED <<sessVars, notRun>>

SpecHang == HangInit /\ [][HangNext]_vars /\ WF_vars(HangNext)

\* C17: every run ends: it reaches the end of processExcelFile or the fatal
\* exit, whatever the backend does with the requests.
C17_RunTerminates == <>(pc \in {"done", "exit"})

(***************************************************************************)
(* Specification SpecGroup: groupTextsByLength on every bounded input      *)
(***************************************************************************)
GroupInit ==
    /\ gTexts \in DistinctSeqs(Texts, MaxTexts)
    /\ gMaxLen \in 0..MaxLenLimit
    /\ gBatchSize \in 0..MaxSizeLimit
    /\ gGroups = <<>>
    /\ gPc = "call"
    /\ RunIdle
    /\ CkptIdle
    /\ SvcIdle
    /\ LimIdle
    /\ MonIdle
    /\ ColIdle
    /\ TbIdle
    /\ HostIdle

GroupCall ==
    /\ gPc = "call"
    /\ gGroups' = groupTextsByLength(gTexts, gMaxLen, gBatchSize)
    /\ gPc' = "returned"
    /\ UNCHANGED <<gTexts, gMaxLen, gBatchSize>>
    /\ UNCHANGED notGroup

GroupNext == GroupCall

SpecGroup == GroupInit /\ [][GroupNext]_vars

\* C2: groupTextsByLength partitions its input: once it has returned, every
\* input text is at exactly one position of exactly one batch, no batch holds
\* a text that is not in the input, and no batch is empty.
C2_GroupsPartitionInput ==
    gPc = "returned" =>
        /\ \A t \in Range(gTexts) :
               Cardinality({<<g, i>> \in (DOMAIN gGroups) \X (1..Len(gTexts)) :
                               i \in DOMAIN gGroups[g] /\ gGroups[g][i] = t}) = 1
        /\ \A g \in DOMAIN gGroups : Range(gGroups[g]) \subseteq Range(gTexts)
        /\ \A g \in DOMAIN gGroups : Len(gGroups[g]) > 0

\* The call has returned more than one batch for a list of three texts, one
\* of them closed by the length limit and not by the item limit.
C2_Witness ==
    /\ gPc = "returned"
    /\ Len(gTexts) = 3
    /\ Len(gGroups) = 2
    /\ gBatchSize = 3
    /\ \E g \in DOMAIN gGroups : Len(gGroups[g]) = 2

\* The combined length of the texts of a batch.
RECURSIVE CombinedLength(_)
CombinedLength(batch) ==
    IF batch = <<>> THEN 0 ELSE Len(Head(batch)) + CombinedLength(Tail(batch))

\* C25: every batch returned has at most BATCH_SIZE items, and its combined
\* length is at most MAX_TEXT_LENGTH unless it is a single text longer than
\* MAX_TEXT_LENGTH; every text longer than MAX_TEXT_LENGTH is in a batch of
\* one item.  With a BATCH_SIZE of 0, which calculateOptimalConfig gives on
\* a host of more than 400 processors, line 190 closes a batch only once it
\* holds an item, and every batch has one item.
C25_BatchesWithinLimits ==
    gPc = "returned" =>
        /\ \A g \in DOMAIN gGroups :
               /\ Len(gGroups[g]) <= gBatchSize
               /\ \/ CombinedLength(gGroups[g]) <= gMaxLen
                  \/ Len(gGroups[g]) = 1 /\ Len(gGroups[g][1]) > gMaxLen
        /\ \A t \in Range(gTexts) :
               Len(t) > gMaxLen => \E g \in DOMAIN gGroups : gGroups[g] = <<t>>

(***************************************************************************)
(* Specification SpecCkpt: calls of saveCheckpoint on a disk that holds no *)
(* checkpoint or the record of an earlier run                              *)
(***************************************************************************)
CkptInit ==
    /\ fs \in {[p \in Paths |-> <<>>],
               [p \in Paths |-> IF p = CheckpointPath THEN <<OldText>> ELSE <<>>]}
    /\ CkptFresh
    /\ RunIdle
    /\ GroupIdle
    /\ SvcIdle
    /\ LimIdle
    /\ MonIdle
    /\ ColIdle
    /\ TbIdle
    /\ HostIdle

CkptNext ==
    \/ SaveStart /\ UNCHANGED notCkpt
    \/ SaveWrite /\ UNCHANGED notCkpt
    \/ SaveVerify /\ UNCHANGED notCkpt
    \/ SaveRename /\ UNCHANGED notCkpt
    \/ SaveAccess /\ UNCHANGED notCkpt
    \/ SaveCleanup /\ UNCHANGED notCkpt
    \/ SaveCrash /\ UNCHANGED notCkpt

SpecCkpt == CkptInit /\ [][CkptNext]_vars

\* C9: whatever step of saveCheckpoint fails or is cut off by a crash, the
\* target path holds no partial record: until the call has renamed its
\* temporary file the target holds exactly what it held when the call began
\* (a complete record or nothing), and after the rename it holds the complete
\* new record.
C9_TargetNeverPartial ==
    /\ fs[CheckpointPath] # <<>> => Parses(fs[CheckpointPath][1])
    /\ ~saveRenamed => fs[CheckpointPath] = savePrev
    /\ saveRenamed => fs[CheckpointPath] = <<Stringify(saveData, saveCount)>>

\* A crash has cut the write of the temporary file short while the target
\* holds the record of an earlier, successful save of this process.
C9_Witness ==
    /\ savePc = "crashed"
    /\ saveCount = 2
    /\ ~saveRenamed
    /\ fs[TempPath(CheckpointPath)] # <<>>
    /\ ~Parses(fs[TempPath(CheckpointPath)][1])
    /\ fs[CheckpointPath] # <<>>
    /\ fs[CheckpointPath] # <<OldText>>

\* C13 as stated: when a save has failed, the file at the target path is
\* what it was when the call began.
C13_FailedSaveLeavesCheckpoint ==
    saveOutcome = "failed" => fs[CheckpointPath] = savePrev

\* C13 as amended: the failed call has returned to its caller (the error is
\* not propagated), and the target path holds what it held when the call
\* began, or, when the failure came after the rename, the complete new record.
C13_FailedSaveKeepsOrReplaces ==
    saveOutcome = "failed" =>
        /\ savePc = "idle"
        /\ \/ ~saveRenamed /\ fs[CheckpointPath] = savePrev
           \/ saveRenamed /\ fs[CheckpointPath] = <<Stringify(saveData, saveCount)>>

\* The second save of the process has failed before its rename, and the
\* record of the first save is still at the target path.
C13_Witness ==
    /\ saveOutcome = "failed"
    /\ saveCount = 2
    /\ ~saveRenamed
    /\ fs[CheckpointPath] # <<>>
    /\ fs[CheckpointPath] # <<OldText>>
    /\ fs[CheckpointPath] = savePrev

(***************************************************************************)
(* Specification SpecLimiter: translateSingle calls entered at any time    *)
(* on one RateLimiter                                                      *)
(***************************************************************************)
LimiterInit ==
    /\ LimFresh
    /\ callers = [c \in Callers |-> CallerIdle]
    /\ RunIdle
    /\ GroupIdle
    /\ CkptIdle
    /\ SvcIdle
    /\ MonIdle
    /\ ColIdle
    /\ TbIdle
    /\ HostIdle

LimiterNext ==
    \/ \E c \in Callers : EnterSingle(c) /\ UNCHANGED notLim
    \/ \E c \in Callers : WakeCaller(c) /\ UNCHANGED notLim
    \/ \E c \in Callers : Respond(c) /\ UNCHANGED notLim
    \/ \E c \in Callers : AbortFires(c) /\ UNCHANGED notLim
    \/ Tick /\ UNCHANGED notLim

SpecLimiter == LimiterInit /\ [][LimiterNext]_vars

\* The slots granted in the window of timeWindow units that ends at t.
GrantsInWindow(t) ==
    {i \in DOMAIN grants : grants[i] > t - LimiterTimeWindow /\ grants[i] <= t}

\* C18: for every instant t, at most maxRequests slots have been granted in
\* the window of timeWindow units ending at t, whatever the number of
\* callers and the order of their steps.
C18_WindowNeverOverfull ==
    \A t \in 0..MaxClock : Cardinality(GrantsInWindow(t)) <= LimiterMaxRequests

\* More callers than slots arrived in one window: one found the limit
\* reached, waited and holds the slot of the next window, another still
\* waits.
C18_Witness ==
    /\ Len(grants) > LimiterMaxRequests
    /\ \E c \in Callers : /\ callers[c].state = "sent"
                          /\ callers[c].start < callers[c].sent
                          /\ callers[c].sent = grants[Len(grants)]
    /\ \E c \in Callers : callers[c].state = "waiting"

\* C19: the wait for a slot fails no attempt: a call that has been granted
\* its slot sends its request, and a request is cancelled only when it has
\* itself been in flight for the time allowed.
C19_WaitingNeverFails ==
    \A c \in Callers :
        /\ callers[c].state # "aborted"
        /\ callers[c].state = "timedOut" => clock - callers[c].sent >= AbortAfter

(***************************************************************************)
(* Specification SpecMonitor: a ProgressMonitor observed at any instants   *)
(***************************************************************************)
MonitorInit ==
    /\ MonFresh
    /\ currentProgress \in 0..1
    /\ RunIdle
    /\ GroupIdle
    /\ CkptIdle
    /\ SvcIdle
    /\ LimIdle
    /\ ColIdle
    /\ TbIdle
    /\ HostIdle

MonitorNext ==
    \/ Observe /\ UNCHANGED notMon
    \/ MonitorTick /\ UNCHANGED notMon

SpecMonitor == MonitorInit /\ [][MonitorNext]_vars

\* The samples seen so far show the current count for a full stall-check
\* window: one sample is at least that old and holds the current count, and
\* no sample holds another count since.
ConstantForWindow ==
    \E i \in DOMAIN progressHistory :
        /\ progressHistory[i].timestamp <= monNow - stallCheckInterval
        /\ \A j \in i..Len(progressHistory) :
               progressHistory[j].count = currentProgress

\* C23: an observation made when the count has stayed the same for a full
\* stall-check window returns isStalled = true.
C23_StalledWhileConstant ==
    (monStatus.observed /\ ConstantForWindow) => monStatus.isStalled

\* (a) of the stall rule: every sample of the last five minutes holds the
\* current count; (b): the count has grown by less than one item in the
\* samples of the last ten minutes (0.1 items per minute).
NoChangeInFiveMinutes ==
    \A i \in DOMAIN progressHistory :
        progressHistory[i].timestamp > monNow - FiveMinutes =>
            progressHistory[i].count = currentProgress
RateBelowMinimum ==
    \E i \in DOMAIN progressHistory :
        /\ progressHistory[i].timestamp > monNow - TenMinutes
        /\ \A j \in 1..(i - 1) : progressHistory[j].timestamp <= monNow - TenMinutes
        /\ currentProgress - progressHistory[i].count < 1

\* C24: an observation that is a stall evaluation returns isStalled = true
\* whenever (a) or (b) holds, however many samples the history holds.
C24_EvaluationFlagsStall ==
    (monStatus.observed /\ monStatus.evaluated) =>
        ((NoChangeInFiveMinutes \/ RateBelowMinimum) => monStatus.isStalled)

(***************************************************************************)
(* Specification SpecColumns: the column filter over the keys of a first   *)
(* row, with the allow-list and the deny-list of the program               *)
(***************************************************************************)
MaxHeaders == 3

\* Object.keys of a row: names in some order, none twice.
HeaderLists ==
    {h \in UNION {[1..n -> ColumnNames] : n \in 0..MaxHeaders} :
        \A i, j \in DOMAIN h : h[i] = h[j] => i = j}

ColumnsInit ==
    /\ colHeaders \in HeaderLists
    /\ colTranslate = COLUMNS_TO_TRANSLATE
    /\ colIgnore = COLUMNS_TO_IGNORE
    /\ colSelected = <<>>
    /\ RunIdle
    /\ GroupIdle
    /\ CkptIdle
    /\ SvcIdle
    /\ LimIdle
    /\ MonIdle
    /\ TbIdle
    /\ HostIdle

ColumnsNext == FilterHeader /\ UNCHANGED notCol

SpecColumns == ColumnsInit /\ [][ColumnsNext]_vars

\* The rule as the claim states it, for one header.
EligibleNotDenied(header) ==
    /\ header \in colTranslate \/ EndsWith(header, "_DE")
    /\ header \notin colIgnore

\* C26: for every header of the row, with the allow-list and the deny-list
\* of the program, the column is selected exactly when it is in the
\* allow-list or ends with the suffix, and is not in the deny-list; a
\* deny-listed column is never selected.
C26_SelectedIffNotDenied ==
    colSelected # <<>> =>
        /\ \A h \in Range(colHeaders) :
               h \in Range(colSelected[1]) <=> EligibleNotDenied(h)
        /\ \A h \in Range(colHeaders) :
               h \in colIgnore => h \notin Range(colSelected[1])

\* The filter ran on a row with an allow-listed name, a name that only has
\* the suffix and a deny-listed name: the first two were kept, in order, and
\* the third was left out.
C26_Witness ==
    /\ colHeaders = <<"IPTC_DE_Headline", "IPTC_DE_Credit", "Title_DE">>
    /\ colSelected = <<(<<"IPTC_DE_Headline", "Title_DE">>)>>

(***************************************************************************)
(* Specification SpecService: one call of the service's translateBatch     *)
(***************************************************************************)
ServiceInit ==
    /\ svcTexts \in UNION {[1..n -> {"", "a", "b"}] : n \in 0..MaxServiceTexts}
    /\ SvcFresh
    /\ RunIdle
    /\ GroupIdle
    /\ CkptIdle
    /\ LimIdle
    /\ MonIdle
    /\ ColIdle
    /\ TbIdle
    /\ HostIdle

ServiceNext ==
    \/ ServiceStart /\ UNCHANGED notSvc
    \/ SingleSucceeds /\ UNCHANGED notSvc
    \/ SingleRetries /\ UNCHANGED notSvc
    \/ SingleGivesUp /\ UNCHANGED notSvc
    \/ FailurePauseEnds /\ UNCHANGED notSvc

SpecService == ServiceInit /\ [][ServiceNext]_vars

\* The requests made for the text in progress, the one now going out included.
RequestsForText == IF svcPc \in {"single", "pause"} THEN svcAttempts + 1 ELSE svcAttempts

\* C5: for every unit of remote work (a batch of index.js's translateBatch, a
\* text of translateSingle) the number of attempts is at most MAX_RETRIES.
C5_AttemptsAtMostMaxRetries ==
    /\ RequestsForText <= MAX_RETRIES
    /\ \A i \in DOMAIN batchState : batchState[i].retry + 1 <= config.MAX_RETRIES

(***************************************************************************)
(* Claims about the run (specification Spec)                                *)
(***************************************************************************)
Running == {i \in DOMAIN batchState : batchState[i].running}
LoopFinished ==
    /\ pc \in {"loop", "cleanup", "final", "done", "exit"}
    /\ textGroups # <<>>
    /\ groupIndex >= Len(batchGroups)

\* C1: in one run, every distinct source text is in the request payload of
\* at most one batch, however many cells hold it; the retries of that batch
\* send it again under the same batch number.
C1_TextSentByOneBatch ==
    \A t \in RunTexts : Cardinality(sentIn[t]) <= 1

\* A text held by cells of two different columns is being retried by the one
\* batch that carries it.
C1_Witness ==
    \E t \in RunTexts, i \in DOMAIN batchState :
        /\ \E r1, r2 \in DOMAIN jsonData :
              Cell(jsonData[r1], Columns[1]) = t /\ Cell(jsonData[r2], Columns[2]) = t
        /\ t \in Range(batchState[i].unique)
        /\ batchState[i].retry >= 1
        /\ sentIn[t] = {batchState[i].number}

\* C3: at every moment the number of translateBatch calls that have started
\* and not yet returned is at most PARALLEL_BATCHES.
C3_InFlightBounded ==
    Cardinality(Running) <= config.PARALLEL_BATCHES

\* As many calls as the bound allows are in flight, and batches still wait.
C3_Witness ==
    /\ config.PARALLEL_BATCHES = 2
    /\ Cardinality(Running) = 2
    /\ Len(textGroups) > 2

\* A call of the group has returned, another is still in flight, and batches
\* have not been dispatched yet.
Starved ==
    /\ pc = "await"
    /\ \E i \in DOMAIN batchState : ~batchState[i].running
    /\ Running # {}
    /\ groupIndex + 1 < Len(batchGroups)

\* C4: a slot freed while batches wait is refilled at once, without waiting
\* for the calls still in flight: a free slot beside waiting batches does not
\* outlast a step.  The loop awaits every call of a group before it
\* dispatches the next group, and the slot stays empty meanwhile.
C4_SlotRefilledAtOnce == [][Starved => ~Starved']_vars

\* C6: when every attempt of a batch has failed, every text of the batch holds
\* the error sentinel once the group is merged, and the run neither exits
\* because of it nor leaves a batch undispatched.
C6_FailedBatchMarkedRunGoesOn ==
    /\ \A k \in failedBatches :
          k <= progress =>
              \A t \in Range(textGroups[k]) : MapGet(translationCache, t) = ErrorSentinel
    /\ (failedBatches # {} /\ pc = "exit") => writeFailed
    /\ (failedBatches # {} /\ pc \in {"cleanup", "final", "done"}) =>
           dispatched = 1..Len(textGroups)

\* A batch of an earlier group failed for good and a later group is in flight.
C6_Witness ==
    /\ pc = "await"
    /\ \E k \in failedBatches :
          /\ k <= progress
          /\ MapGet(translationCache, textGroups[k][1]) = ErrorSentinel
    /\ Running # {}

\* C7: when the loop is over, every text that was pending at the start holds
\* a non-empty value, provided no successful response carried an empty
\* translation.
C7_NothingLeftPending ==
    (LoopFinished /\ ~blankResponse) =>
        \A t \in Range(uniqueTexts) : MapGet(translationCache, t) # ""

\* The loop is over for three pending texts in two groups, one batch failed
\* and another translated.
C7_Witness ==
    /\ LoopFinished
    /\ ~blankResponse
    /\ Len(uniqueTexts) = 3
    /\ Len(batchGroups) = 2
    /\ failedBatches # {}
    /\ \E t \in Range(uniqueTexts) : MapGet(translationCache, t) = Translate(t)

\* C8: after the build the key list of the cache never changes, and an entry
\* that is non-empty is never overwritten or removed; the only changes are
\* from empty to another value.
C8_CacheOnlyFillsEmpty ==
    [][pc # "start" =>
          /\ MapKeys(translationCache') = MapKeys(translationCache)
          /\ \A i \in DOMAIN translationCache :
                translationCache[i].v # "" => translationCache'[i] = translationCache[i]]_vars

\* The second group has been merged into a cache that holds a seeded entry
\* and an entry resolved by the first group.
C8_Witness ==
    /\ pc = "checkpoint"
    /\ groupIndex = 1
    /\ MapHas(translationCache, "a")
    /\ MapGet(translationCache, "a") = Earlier("a")
    /\ \E t \in Range(uniqueTexts) : MapGet(translationCache, t) = Translate(t)
    /\ \E t \in Range(uniqueTexts) : MapGet(translationCache, t) = ErrorSentinel

\* C10: the checkpoint file is deleted only after the final output write has
\* completed; whenever the run has deleted it, the final artifact exists.
C10_DeletedOnlyAfterFinalWrite ==
    unlinked => finalFile # <<>>

\* C15: whenever the run ends with a fatal error after a batch has been
\* dispatched, the checkpoint file exists and holds the cache as it is at the
\* exit.
C15_FatalExitLeavesCheckpoint ==
    (pc = "exit" /\ dispatched # {}) =>
        /\ checkpointFile # <<>>
        /\ checkpointFile[1].translations = translationCache

\* Largest threshold of consecutive batch failures considered.
MaxThreshold == 1

\* The batches merged so far that failed with no success after them, counted
\* in the order the loop merges their results (lines 659-666).
ConsecutiveFailures ==
    Cardinality({n \in 1..progress : \A m \in n..progress : m \in failedBatches})

\* C16: for some threshold, once more consecutive batches than the threshold
\* have failed the run has no later group in flight, does not finish with exit
\* code 0, and when it has exited the checkpoint file holds the cache.
C16_FailureStreakStopsRun ==
    \E threshold \in 0..MaxThreshold :
        ConsecutiveFailures > threshold =>
            /\ pc \notin {"await", "done"}
            /\ pc = "exit" => /\ exitCode = 1
                              /\ checkpointFile # <<>>
                              /\ checkpointFile[1].translations = translationCache

\* C22: the error sentinel is never written into a derived column, neither
\* of the intermediate nor of the final output.
C22_SentinelNeverWritten ==
    \A file \in {translatedFile, finalFile} :
        file # <<>> =>
            \A r \in DOMAIN file[1] :
                \A h \in DOMAIN file[1][r] : file[1][r][h] # ErrorSentinel

\* A (source, derived) pair of the _translated file the run found: a selected
\* column of row r with a value in it and a value in its derived column.
ArtifactPair(r, col) ==
    LET row == translatedFile[1][r]
    IN  /\ col \in DOMAIN row
        /\ EnglishColumn(col) \in DOMAIN row
        /\ row[col] # ""
        /\ row[EnglishColumn(col)] # ""

\* C28: when the build has finished, every pair of a selected column and its
\* derived column with a value on both sides in a row of the _translated file
\* the run found has its text in the cache with that translation, and the
\* text is not pending.
C28_ArtifactPairsSeedCache ==
    (pc = "checkpoint0" /\ translatedFile # <<>>) =>
        \A r \in 1..Len(translatedFile[1]) : \A c \in Range(germanColumns) :
            (ArtifactPair(r, c) /\ MapHas(translationCache, translatedFile[1][r][c])) =>
                /\ MapGet(translationCache, translatedFile[1][r][c])
                       = translatedFile[1][r][EnglishColumn(c)]
                /\ translatedFile[1][r][c] \notin Range(uniqueTexts)



\* A sheet the run refuses: no row, or no column selected from its headers.
RefusedInput ==
    \/ Len(jsonData) = 0
    \/ Len(GermanColumnsOf(jsonData)) = 0

\* C29: on a sheet with no row or with no selected column the run's first
\* step is its last: it exits with a non-zero status, no batch was ever
\* dispatched and no text sent, no checkpoint exists, the _translated file is
\* the one found at the start and there is no _translated_FINAL file.
C29_RefusedInputFailsAtOnce ==
    (pc # "start" /\ RefusedInput) =>
        /\ pc = "exit"
        /\ exitCode # 0 /\ exitCode # -1
        /\ dispatched = {}
        /\ \A t \in DOMAIN sentIn : sentIn[t] = {}
        /\ checkpointFile = <<>>
        /\ savedAt = 0
        /\ translatedFile = PriorArtifact(existingTranslations)
        /\ finalFile = <<>>

\* A sheet with rows and no selected column has been refused, with a
\* _translated file of an earlier run on disk.
C29_Witness ==
    /\ pc = "exit"
    /\ exitCode = 1
    /\ Len(jsonData) > 0
    /\ Len(GermanColumnsOf(jsonData)) = 0
    /\ translatedFile # <<>>



(***************************************************************************)
(* Specification SpecLoad: calls of saveCheckpoint and loadCheckpoint on a *)
(* disk that holds no checkpoint, the record of an earlier run, or a text  *)
(* that is not a record                                                    *)
(***************************************************************************)
\* A checkpoint file whose text stops inside the record.
CutText == SubSeq(OldText, 1, 3)

LoadInit ==
    /\ fs \in {[p \in Paths |-> <<>>],
               [p \in Paths |-> IF p = CheckpointPath THEN <<OldText>> ELSE <<>>],
               [p \in Paths |-> IF p = CheckpointPath THEN <<CutText>> ELSE <<>>]}
    /\ CkptFresh
    /\ RunIdle
    /\ GroupIdle
    /\ SvcIdle
    /\ LimIdle
    /\ MonIdle
    /\ ColIdle
    /\ TbIdle
    /\ HostIdle

LoadNext ==
    \/ CkptNext
    \/ Load /\ UNCHANGED notCkpt

SpecLoad == LoadInit /\ [][LoadNext]_vars

\* The checkpoint file is absent, or its text is not a record.
AbsentOrMalformed ==
    \/ fs[CheckpointPath] = <<>>
    \/ ~Parses(fs[CheckpointPath][1])

\* C30 as stated: loadCheckpoint returns null when the file is absent or not
\* well-formed, and otherwise the record (translations, processedRows,
\* totalRows) that the last successful saveCheckpoint wrote to the path.
C30_LoadReturnsLastSaved ==
    loadResult.called =>
        /\ AbsentOrMalformed => loadResult.isNull
        /\ (~AbsentOrMalformed /\ lastSaved # <<>>) =>
               /\ ~loadResult.isNull
               /\ loadResult.record = RecordOf(lastSaved[1])

\* C30 as amended: loadCheckpoint returns null exactly when the directory
\* fails its write test, the file is absent or cannot be read, or its text is
\* not well-formed; otherwise it returns the record the file holds, which is
\* the data of the last saveCheckpoint that renamed its temporary file into
\* place, whether or not that call then ended without error.
C30_LoadReturnsFileRecord ==
    loadResult.called =>
        /\ loadResult.isNull <=>
               (~loadResult.dirOk \/ ~loadResult.readOk \/ AbsentOrMalformed)
        /\ ~loadResult.isNull =>
               /\ loadResult.record = RecordOf(fs[CheckpointPath][1])
               /\ saveRenamed => loadResult.record = saveData
               /\ saveOutcome = "ok" => loadResult.record = RecordOf(lastSaved[1])

\* loadCheckpoint has returned the record of the second save of the process,
\* a save that ended without error.
C30_Witness ==
    /\ loadResult.called
    /\ ~loadResult.isNull
    /\ saveCount = 2
    /\ saveOutcome = "ok"
    /\ loadResult.record = saveData
    /\ loadResult.record.processedRows > 0



(***************************************************************************)
(* Specification SpecDry: one invocation of processExcelFile with or       *)
(* without --dry-run, on a disk that may hold the checkpoint of an earlier *)
(* run                                                                     *)
(***************************************************************************)
\* The checkpoint an earlier run left: one text, translated.
EarlierCheckpoint ==
    CheckpointRecord(1, <<[k |-> "a", v |-> Translate("a")]>>, 1)

DryInit ==
    /\ config \in {c \in Configs : c.BATCH_SIZE = 1 /\ c.PARALLEL_BATCHES = 1}
    /\ jsonData \in Datasets
    /\ existingTranslations \in ExistingChoices
    /\ dryRun \in BOOLEAN
    /\ checkpointFile \in {<<>>, <<EarlierCheckpoint>>}
    /\ startCheckpoint = checkpointFile
    /\ runNo = 1
    /\ firstExisting = existingTranslations
    /\ RunStart
    /\ GroupIdle
    /\ CkptIdle
    /\ SvcIdle
    /\ LimIdle
    /\ MonIdle
    /\ ColIdle
    /\ TbIdle
    /\ HostIdle

SpecDry == DryInit /\ [][Next]_vars

\* C31: in a dry run no batch is dispatched and no text is sent, the
\* checkpoint file is the one found at the start (not written, not deleted),
\* the _translated file is the one found at the start and no
\* _translated_FINAL file exists; the run's first step is its last.
C31_DryRunTouchesNothing ==
    dryRun =>
        /\ pc \in {"start", "done", "exit"}
        /\ dispatched = {}
        /\ \A t \in DOMAIN sentIn : sentIn[t] = {}
        /\ checkpointFile = startCheckpoint
        /\ ~unlinked
        /\ savedAt = 0
        /\ translatedFile = PriorArtifact(firstExisting)
        /\ finalFile = <<>>

\* A dry run has returned on a sheet with pending texts, with the checkpoint
\* of an earlier run on disk.
C31_Witness ==
    /\ dryRun
    /\ pc = "done"
    /\ exitCode = 0
    /\ Len(uniqueTexts) > 0
    /\ checkpointFile = <<EarlierCheckpoint>>



\* C32: when the save made at run start has been done, every text of the
\* dataset that had a non-empty translation in the checkpoint file found at
\* the start has that translation in the checkpoint file.
C32_StartKeepsCheckpointWork ==
    (pc = "group" /\ startCheckpoint # <<>> /\ checkpointFile # <<>>) =>
        \A e \in Range(startCheckpoint[1].translations) :
            (e.v # "" /\ MapHas(translationCache, e.k)) =>
                /\ MapHas(checkpointFile[1].translations, e.k)
                /\ MapGet(checkpointFile[1].translations, e.k) = e.v



\* C33: when a run without --dry-run has returned normally (exit code 0),
\* the _translated_FINAL file has been written and no checkpoint file is on
\* disk.
C33_NormalReturnLeavesFinalOnly ==
    (pc = "done" /\ exitCode = 0 /\ ~dryRun) =>
        /\ finalFile # <<>>
        /\ checkpointFile = <<>>



\* Lines 266-268: the entries of the translations of a checkpoint read
\* from disk for which translation && translation.length > 0 holds, a
\* non-empty string; an object has no length.
NonEmptyEntries(translations) ==
    Cardinality({i \in DOMAIN translations :
                    translations[i].v # "" /\ translations[i].v # EmptyObject})

\* C34: in the checkpoint record on disk processedRows is the number of
\* entries of its translations with a non-empty value, totalRows is the
\* number of distinct texts, and processedRows is at most totalRows.
C34_RecordCountsMatch ==
    checkpointFile # <<>> =>
        LET record == checkpointFile[1]
        IN  /\ record.processedRows = NonEmptyEntries(record.translations)
            /\ record.totalRows = Len(record.translations)
            /\ record.processedRows <= record.totalRows



\* const currentCompleted = completedTranslations + progress (line 672).
currentCompleted == completedTranslations + progress

\* C35: when a batch group has been merged and progress advanced, the
\* completed count is the number of cache entries with a non-empty value, is
\* at most the total (the size of the cache), and after the last group of the
\* run is the total.
C35_CompletedCountMatchesCache ==
    pc = "checkpoint" =>
        /\ currentCompleted = NonEmptyEntries(translationCache)
        /\ currentCompleted <= Len(translationCache)
        /\ groupIndex + 1 = Len(batchGroups) => currentCompleted = Len(translationCache)



(***************************************************************************)
(* Specification SpecBatch: one translateBatch call (index.js 355-418),    *)
(* each sub-batch request of each attempt on its own                       *)
(***************************************************************************)
\* Most texts of the batch.
MaxBatchTexts == 2

\* The requests attempt k creates: one per sub-batch, each behind its
\* sleep(subIndex * 50).
RequestsOf(k, subBatches) ==
    [j \in DOMAIN subBatches |-> [attempt |-> k, sub |-> j, state |-> "delayed"]]

\* Requests of an attempt in a state.
InState(k, state) ==
    {r \in DOMAIN tbRequests : tbRequests[r].attempt = k /\ tbRequests[r].state = state}

\* Lines 362-395: the sub-batches are cut and their promises created.
BatchIssue ==
    /\ tbPc = "issue"
    /\ tbServed' = 0
    /\ tbRequests' = tbRequests \o RequestsOf(tbRetry, SubBatchesOf(tbTexts, tbParallel))
    /\ tbPc' = "await"
    /\ UNCHANGED <<tbTexts, tbParallel, tbRetry, tbResult>>

\* Lines 373-387: the sleep of a sub-batch promise ends and its fetch goes
\* out; the promise runs on whatever became of the attempt that created it.
\* The requests are listed in the order their timers were set.  A timer set
\* before fires before when it has the same delay, or a shorter one unless
\* the list r is in is being served (setTimeout, lines 170-172).
BatchSend(r) ==
    /\ r \in DOMAIN tbRequests
    /\ tbPc # "issue"
    /\ tbRequests[r].state = "delayed"
    /\ \A q \in 1..(r - 1) :
          (\/ tbRequests[q].sub = tbRequests[r].sub
           \/ tbRequests[q].sub < tbRequests[r].sub /\ tbServed # tbRequests[r].sub)
          => tbRequests[q].state # "delayed"
    /\ tbRequests' = [tbRequests EXCEPT ![r].state = "inflight"]
    /\ tbServed' = IF \E q \in DOMAIN tbRequests \ {r} :
                          /\ tbRequests[q].state = "delayed"
                          /\ tbRequests[q].sub = tbRequests[r].sub
                   THEN tbRequests[r].sub ELSE 0
    /\ UNCHANGED <<tbTexts, tbParallel, tbPc, tbRetry, tbResult>>

\* Lines 389-394: the backend answers a request, 2xx or not; fetch is called
\* without a timeout and without a signal, so the answer comes when it comes.
BatchAnswer(r) ==
    /\ r \in DOMAIN tbRequests
    /\ tbPc # "issue"
    /\ tbRequests[r].state = "inflight"
    /\ \E ok \in BOOLEAN :
          /\ tbRequests' = [tbRequests EXCEPT ![r].state = IF ok THEN "ok" ELSE "failed"]
          /\ tbServed' = IF ok THEN 0 ELSE tbServed
    /\ UNCHANGED <<tbTexts, tbParallel, tbPc, tbRetry, tbResult>>

\* Lines 398-408: Promise.all resolves when every request of the attempt is
\* answered 2xx, and the merged map is returned.
BatchResolves ==
    /\ tbPc = "await"
    /\ UNCHANGED tbServed
    /\ \A r \in DOMAIN tbRequests :
          tbRequests[r].attempt = tbRetry => tbRequests[r].state = "ok"
    /\ tbResult' = SuccessResult(tbTexts, tbParallel, {})
    /\ tbPc' = "returned"
    /\ UNCHANGED <<tbTexts, tbParallel, tbRetry, tbRequests>>

\* Lines 409-416: Promise.all rejects with the first failed request, the
\* others of the attempt still running; the catch returns the sentinel map
\* after the last attempt and sleeps before any other.
BatchRejects ==
    /\ tbPc = "await"
    /\ UNCHANGED tbServed
    /\ InState(tbRetry, "failed") # {}
    /\ IF tbRetry = MAX_RETRIES - 1
       THEN /\ tbResult' = FailureResult(tbTexts)
            /\ tbPc' = "returned"
       ELSE /\ tbPc' = "sleep"
            /\ UNCHANGED tbResult
    /\ UNCHANGED <<tbTexts, tbParallel, tbRetry, tbRequests>>

\* Line 415 and the loop header: sleep(RETRY_DELAY * 2^retry) ends, retry++,
\* whatever the sub-batch promises of the failed attempt are doing: a
\* sub-batch may still be behind its sleep(subIndex * 50).
BatchWakes ==
    /\ tbPc = "sleep"
    /\ tbServed' = 0
    /\ tbRetry' = tbRetry + 1
    /\ tbPc' = "issue"
    /\ UNCHANGED <<tbTexts, tbParallel, tbRequests, tbResult>>

BatchInit ==
    /\ tbTexts \in {t \in DistinctSeqs(RunTexts, MaxBatchTexts) : Len(t) >= 1}
    /\ tbParallel \in 1..MaxParallel
    /\ TbFresh
    /\ RunIdle
    /\ GroupIdle
    /\ CkptIdle
    /\ SvcIdle
    /\ LimIdle
    /\ MonIdle
    /\ ColIdle
    /\ HostIdle

BatchNext ==
    \/ BatchIssue /\ UNCHANGED notTb
    \/ \E r \in 1..(MAX_RETRIES * MaxBatchTexts) : BatchSend(r) /\ UNCHANGED notTb
    \/ \E r \in 1..(MAX_RETRIES * MaxBatchTexts) : BatchAnswer(r) /\ UNCHANGED notTb
    \/ BatchResolves /\ UNCHANGED notTb
    \/ BatchRejects /\ UNCHANGED notTb
    \/ BatchWakes /\ UNCHANGED notTb

SpecBatch == BatchInit /\ [][BatchNext]_vars

\* C36: while a request of the current attempt of the batch is in flight, no
\* request of an earlier attempt is in flight.
C36_AttemptsNeverOverlap ==
    InState(tbRetry, "inflight") # {} =>
        \A r \in DOMAIN tbRequests :
            tbRequests[r].state = "inflight" => tbRequests[r].attempt = tbRetry



\* C37: when the build of a later run on the input has finished, no text of
\* the cache is seeded with the error sentinel: a text the earlier run left
\* with the sentinel has the value '' and is pending.
C37_SentinelNeverSeeded ==
    (runNo = 2 /\ pc = "checkpoint0") =>
        \A e \in Range(translationCache) :
            /\ e.v # ErrorSentinel
            /\ existingTranslations[e.k] = ErrorSentinel => e.k \in Range(uniqueTexts)



\* C38: when the build has finished, every non-empty cell of every row in a
\* column whose name the filter selects is a key of the cache.
C38_EveryDesignatedCellCached ==
    pc = "checkpoint0" =>
        \A r \in DOMAIN jsonData : \A c \in DOMAIN Columns :
            (IsGermanColumn(Columns[c]) /\ Cell(jsonData[r], Columns[c]) # "") =>
                MapHas(translationCache, jsonData[r][Columns[c]])



(***************************************************************************)
(* Specification SpecHost: calculateOptimalConfig on a host, then the loop *)
(* that slices the batches into groups of PARALLEL_BATCHES                 *)
(***************************************************************************)
\* Most CPUs of a host, most batches to slice, most groups kept of a loop
\* that does not advance.
MaxCpu == 402
MaxSlices == 3
MaxSliceSteps == 4

\* calculateOptimalConfig of index.js (98-131).  Math.floor(cpuCount * 1.5)
\* is 3 * cpuCount div 2; 75 / (P / 8) is 600 / P, floored; BATCH_SIZE * 0.8
\* floored is 4 * BATCH_SIZE div 5.
calculateOptimalConfig(cpuCount, lowMemory) ==
    LET parallel == IF cpuCount = 12 THEN 20 ELSE Max((3 * cpuCount) \div 2, 4)
        size     == IF cpuCount = 12 THEN 25 ELSE (75 * 8) \div parallel
    IN  [PARALLEL_BATCHES |-> parallel,
         BATCH_SIZE |-> IF lowMemory THEN (4 * size) \div 5 ELSE size]

\* calculateOptimalConfig of the config module (part_005 327-346).
calculateOptimalConfigModule(cpuCount) ==
    [PARALLEL_BATCHES |-> Min(5, cpuCount \div 2), BATCH_SIZE |-> 3]

\* export const config = calculateOptimalConfig()
Configure ==
    /\ hostConfig = <<>>
    /\ hostConfig' = <<IF hostModule THEN calculateOptimalConfigModule(hostCpu)
                       ELSE calculateOptimalConfig(hostCpu, hostLowMemory)>>
    /\ UNCHANGED <<hostCpu, hostLowMemory, hostModule, hostBatches, hostI, hostGroups>>

\* One pass of the loop of index.js 636-641: the next PARALLEL_BATCHES
\* batches become a group, i += PARALLEL_BATCHES.
SliceStep ==
    /\ hostConfig # <<>>
    /\ hostI < hostBatches
    /\ Len(hostGroups) < MaxSliceSteps
    /\ LET parallel == hostConfig[1].PARALLEL_BATCHES
       IN  /\ hostGroups' = Append(hostGroups,
                                   {hostI + j : j \in {k \in 0..(parallel - 1) :
                                                          hostI + k < hostBatches}})
           /\ hostI' = hostI + parallel
    /\ UNCHANGED <<hostCpu, hostLowMemory, hostModule, hostConfig, hostBatches>>

HostInit ==
    /\ hostCpu \in 1..MaxCpu
    /\ hostLowMemory \in BOOLEAN
    /\ hostModule \in BOOLEAN
    /\ hostModule => ~hostLowMemory
    /\ hostBatches \in 0..MaxSlices
    /\ HostFresh
    /\ RunIdle
    /\ GroupIdle
    /\ CkptIdle
    /\ SvcIdle
    /\ LimIdle
    /\ MonIdle
    /\ ColIdle
    /\ TbIdle

HostNext ==
    \/ Configure /\ UNCHANGED notHost
    \/ SliceStep /\ UNCHANGED notHost

SpecHost == HostInit /\ [][HostNext]_vars

\* C39: the config of every host has PARALLEL_BATCHES >= 1 and
\* BATCH_SIZE >= 1; every pass of the slicing loop puts at least one batch in
\* its group, and when the loop has ended every batch is in exactly one group.
C39_ConfigIsPositive ==
    hostConfig # <<>> =>
        /\ hostConfig[1].PARALLEL_BATCHES >= 1
        /\ hostConfig[1].BATCH_SIZE >= 1
        /\ \A g \in DOMAIN hostGroups : hostGroups[g] # {}
        /\ hostI >= hostBatches =>
               \A b \in 0..(hostBatches - 1) :
                   Cardinality({g \in DOMAIN hostGroups : b \in hostGroups[g]}) = 1



\* C40: for counts that never decrease, an observation that returns
\* isStalled = true is made when every sample of the last five minutes (the
\* samples newer than now - 5 min, the current one included) holds the
\* current count.
C40_NoFalseStallAlarm ==
    (monStatus.observed /\ monStatus.isStalled) => NoChangeInFiveMinutes

\* A stall has been flagged after the count had grown: the history holds a
\* lower count, older than five minutes, and the samples since hold the
\* current one.
C40_Witness ==
    /\ monStatus.observed
    /\ monStatus.isStalled
    /\ currentProgress > 0
    /\ \E i \in DOMAIN progressHistory : progressHistory[i].count < currentProgress
    /\ Cardinality({i \in DOMAIN progressHistory :
                       progressHistory[i].timestamp > monNow - FiveMinutes}) >= 2


====
